---- MODULE Spec2Model ----
(***************************************************************************)
(* Model of SRC/pdgstrs.c: the distributed triangular solve of a sparse    *)
(* LU factorization on a Pr x Pc process mesh.                             *)
(*                                                                         *)
(* A behaviour of Spec is a call of pdgstrs on every process of the grid:  *)
(* the test of the arguments, B-to-X redistribution, forward sweep (leaf   *)
(* seeding and the receive loop), backward sweep (root seeding and the     *)
(* receive loop), X-to-B redistribution, deallocation; on small grids the  *)
(* caller then calls once more with the same B.  The factor, the grid, the *)
(* permutations and B are chosen in Init from bounded sets; values are     *)
(* integers so that every kernel is exact.  RtSpec runs the two            *)
(* redistributions alone, one after the other; InvSpec runs the inversion  *)
(* of the diagonal blocks alone, over factors that may have a zero pivot;  *)
(* ColSpec lets the caller solve one column of B again with nrhs = 1.      *)
(***************************************************************************)
EXTENDS Integers, Sequences, FiniteSets, TLC

VARIABLES
    \* ---- inputs of the call (fixed during a behaviour) ----
    grid,        \* gridinfo_t: [nprow, npcol]
    xsup,        \* Glu_persist->xsup, as a sequence: xsup[k+1] = first column of supernode k
    supno,       \* Glu_persist->supno: the supernode of each column
    Llu,         \* LocalLU_t of every process: panels, inverses, trees, counter templates
    kind,        \* the family the factor is drawn from: "pattern", "bidiag" or "identity"
    Lsel,        \* which off-diagonal blocks L(i,k), i > k, are non-zero
    Usel,        \* which off-diagonal blocks U(i,k), i < k, are non-zero
    scale,       \* magnitude of the factor entries
    perm_r,      \* ScalePermstruct->perm_r
    perm_c,      \* ScalePermstruct->perm_c
    nrhs,        \* number of right-hand sides (argument 9 of pdgstrs)
    n_in,        \* the order of the system as the caller passes it (argument 1 of pdgstrs)
    shape,       \* topology of the communication trees: "flat" or "chain"
    zpiv,        \* the row of U whose pivot is exactly zero, or NoPivot
    B0,          \* the caller's B at entry, by global row and right-hand side
    \* ---- the caller ----
    calls,       \* the number of the call of pdgstrs: 1, or 2 when the caller solves again
    Bfirst,      \* the B the first call returned, once the caller has called again
    INFO,        \* INFO[k]: what the local INFO of pdCompute_Diag_Inv held after block k
    \* ---- per-process state of pdgstrs ----
    pc,          \* position of each process in pdgstrs
    B,           \* the caller's local B array (m_loc x nrhs, leading dimension ldb)
    x,           \* x[p][lk] = [hdr, val]: header word and block values
    lsum,        \* lsum[p][lk] = [hdr, val]
    fmod, frecv, nfrecvx, nfrecvmod,
    nfrecvx_buf, \* the number of slots of recvbuf_BC_fwd a tree forward was started from
    recvbuf0,    \* the slot of recvbuf_BC_fwd the next MPI_Recv of the forward loop writes
    fwdSlots,    \* the slots of recvbuf_BC_fwd handed to a tree forward in this sweep
    bmod, brecv, nbrecvx, nbrecvmod,
    info,        \* the caller's info variable
    alloc,       \* alloc[p]: the per-call arrays of p that are allocated and not freed
    pending,     \* pending[p]: <<via, buf>>, a non-blocking send from buf that was not waited for
    SolveMsgSent, \* Llu->SolveMsgSent of each process: the used entries of send_req
    coll,        \* the collective operations of pdgstrs itself that were entered
    \* ---- transport ----
    chan,        \* chan[<<src, dst>>]: point-to-point messages in flight, in send order
    a2a,         \* per collective: the processes that have entered it
    \* ---- observation (history) ----
    nsolve,      \* nsolve[<<sweep, k>>]: number of diagonal solves of supernode k
    ndeliv,      \* ndeliv[<<sweep, k, dst>>]: number of X_k messages received by dst
    solveLog,    \* <<sweep, k, mod, recv>>: the counters each diagonal solve found
    recvLog      \* <<sweep, what, branch>>: what each received message carried and the branch
                 \* of the receive loop that handled it

argVars == <<grid, xsup, supno, kind, Lsel, Usel, scale, perm_r, perm_c, nrhs, n_in, shape, zpiv, B0>>
\* what is fixed during a call
inVars == <<argVars, calls, Bfirst, INFO>>
cfgVars == <<inVars, Llu>>
resVars == <<info, alloc, pending, SolveMsgSent, coll>>
fwdVars == <<fmod, frecv, nfrecvx, nfrecvmod, nfrecvx_buf, recvbuf0, fwdSlots>>
bwdVars == <<bmod, brecv, nbrecvx, nbrecvmod>>
obsVars == <<nsolve, ndeliv, solveLog, recvLog>>
vars == <<cfgVars, pc, B, x, lsum, fwdVars, bwdVars, resVars, chan, a2a, obsVars>>

-----------------------------------------------------------------------------
(* Bounds of the model *)

MaxVal == 1

Grids == {<<1, 1>>, <<1, 2>>, <<2, 1>>, <<2, 2>>, <<1, 3>>, <<3, 1>>}
XsupSet == {<<0, 1, 2, 3, 4>>, <<0, 2, 3, 4>>}
NrhsSet == {2}
\* the grids on which the caller calls pdgstrs a second time
TwoCallGrids == {<<1, 1>>, <<1, 2>>, <<2, 1>>}
\* an illegal value of n or nrhs
BadArg == 0 - 1

-----------------------------------------------------------------------------
(* Message tags of the backward sweep (the forward sweep's tags are the   *)
(* tree tags: k for X_k, nsupers + k for the partial sum of block row k)  *)

Xk == 21
LSUM == 23

-----------------------------------------------------------------------------
(* Grid and supernode addressing *)

nsupers == Len(xsup) - 1
n == xsup[Len(xsup)]
Supers == 0 .. (nsupers - 1)
Rows == 0 .. (n - 1)
Pr == grid.nprow
Pc == grid.npcol
Procs == 0 .. (Pr * Pc - 1)

MYROW(iam) == iam \div Pc
MYCOL(iam) == iam % Pc
PNUM(i, j) == i * Pc + j
PROW(bnum) == bnum % Pr
PCOL(bnum) == bnum % Pc
LBi(bnum) == bnum \div Pr
LBj(bnum) == bnum \div Pc
CEILING(a, b) == (a + b - 1) \div b

FstBlockC(bnum) == xsup[bnum + 1]
SuperSize(bnum) == xsup[bnum + 2] - xsup[bnum + 1]
BlockNum(i) == supno[i]

DiagProc(k) == PNUM(PROW(k), PCOL(k))
nlb == CEILING(nsupers, Pr)
\* the local block rows of p that hold a supernode (gb < nsupers)
LocalRows(p) == {lk \in 0 .. (nlb - 1) : MYROW(p) + lk * Pr < nsupers}
GlobalRow(p, lk) == MYROW(p) + lk * Pr

-----------------------------------------------------------------------------
(* Dense kernels on column-major arrays (functions on 0 .. len-1) *)

RECURSIVE Sum(_, _, _)
Sum(f, lo, hi) == IF lo > hi THEN 0 ELSE f[lo] + Sum(f, lo + 1, hi)

\* the function f as an array of values
Array(f) == f @@ <<>>

Zeros(len) == Array([i \in 0 .. (len - 1) |-> 0])

\* C := A * Bm, A is m x k with leading dimension lda, Bm is k x ncol (ldb), C is m x ncol (ldc = m)
dgemm(m, ncol, k, A, lda, Bm, ldb) ==
    Array([idx \in 0 .. (m * ncol - 1) |->
              LET i == idx % m
                  j == idx \div m
              IN Sum([l \in 0 .. (k - 1) |-> A[i + l * lda] * Bm[l + j * ldb]], 0, k - 1)])

ExactDiv(a, d) == IF d > 0 THEN a \div d ELSE (0 - a) \div (0 - d)

\* one column of a unit lower triangular solve: y[i] = b[i] - sum_{l<i} A[i,l] y[l]
RECURSIVE LowerUnitSolve(_, _, _, _)
LowerUnitSolve(A, lda, b, i) ==
    IF i < 0 THEN <<>>
    ELSE LET prev == LowerUnitSolve(A, lda, b, i - 1)
         IN prev @@ (i :> b[i] - Sum([l \in 0 .. (i - 1) |-> A[i + l * lda] * prev[l]], 0, i - 1))

\* one column of an upper triangular (non-unit) solve, rows m-1 down to i
RECURSIVE UpperSolve(_, _, _, _, _)
UpperSolve(A, lda, b, m, i) ==
    IF i >= m THEN <<>>
    ELSE LET next == UpperSolve(A, lda, b, m, i + 1)
         IN next @@ (i :> ExactDiv(b[i] - Sum([l \in (i + 1) .. (m - 1) |-> A[i + l * lda] * next[l]],
                                              i + 1, m - 1),
                                   A[i + i * lda]))

\* dtrsm("L","L","N","U"): X := inv(unit lower A) * X, X is m x ncol with leading dimension m
dtrsm_LLNU(m, ncol, A, lda, X) ==
    Array([idx \in 0 .. (m * ncol - 1) |->
              LET j == idx \div m
                  col == [i \in 0 .. (m - 1) |-> X[i + j * m]]
              IN LowerUnitSolve(A, lda, col, m - 1)[idx % m]])

\* dtrsm("L","U","N","N"): X := inv(upper A) * X
dtrsm_LUNN(m, ncol, A, lda, X) ==
    Array([idx \in 0 .. (m * ncol - 1) |->
              LET j == idx \div m
                  col == [i \in 0 .. (m - 1) |-> X[i + j * m]]
              IN UpperSolve(A, lda, col, m, 0)[idx % m]])

\* dtrtri("L","U"): inverse of the unit lower triangle of A (m x m, leading dimension m),
\* written over the strictly lower triangle; the diagonal and the upper triangle of the
\* array are neither read nor written
dtrtri_LU(m, A) ==
    Array([idx \in 0 .. (m * m - 1) |->
              LET j == idx \div m
                  e == [i \in 0 .. (m - 1) |-> IF i = j THEN 1 ELSE 0]
              IN IF idx % m > j THEN LowerUnitSolve(A, m, e, m - 1)[idx % m] ELSE A[idx]])

\* the INFO of dtrtri("U","N"): the 1-based index of the first diagonal entry that is
\* exactly zero, or 0 when the triangle is not singular
dtrtri_UN_INFO(m, A) ==
    IF \A i \in 0 .. (m - 1) : A[i + i * m] # 0 THEN 0
    ELSE 1 + (CHOOSE i \in 0 .. (m - 1) :
                  A[i + i * m] = 0 /\ \A l \in 0 .. (i - 1) : A[l + l * m] # 0)

\* dtrtri("U","N"): inverse of the upper triangle of A, written over the upper triangle;
\* the strictly lower triangle of the array is neither read nor written; a singular A is
\* left as it was
dtrtri_UN(m, A) ==
    IF dtrtri_UN_INFO(m, A) # 0 THEN A ELSE
    Array([idx \in 0 .. (m * m - 1) |->
              LET j == idx \div m
                  e == [i \in 0 .. (m - 1) |-> IF i = j THEN 1 ELSE 0]
              IN IF idx % m <= j THEN UpperSolve(A, m, e, m, 0)[idx % m] ELSE A[idx]])

-----------------------------------------------------------------------------
(* The factor: values of L and U by global row and column *)

\* a non-zero entry pattern with both signs
Entry(r, c) == IF (r + c) % 2 = 1 THEN 0 - (1 + (r % 2)) ELSE 1 + (c % 2)
\* the diagonal of U: invertible over the integers
Udiag(r) == IF r % 2 = 0 THEN 1 ELSE 0 - 1
\* zpiv when no pivot of U is zero
NoPivot == 0 - 1

LowerBlk == {ik \in Supers \X Supers : ik[1] > ik[2]}
UpperBlk == {ik \in Supers \X Supers : ik[1] < ik[2]}

\* L(r,c) for r > c (the unit diagonal is implied), 0 outside the block structure
SupnoOf(i) == CHOOSE k \in Supers : xsup[k + 1] <= i /\ i < xsup[k + 2]

Lval(r, c) ==
    LET i == SupnoOf(r)
        k == SupnoOf(c)
    IN IF r <= c THEN 0
       ELSE IF kind = "identity" THEN 0
       ELSE IF kind = "bidiag" THEN (IF r = c + 1 THEN 0 - 1 ELSE 0)
       ELSE IF i = k THEN scale * Entry(r, c)
       ELSE IF Lsel[<<i, k>>] THEN scale * Entry(r, c) ELSE 0

\* U(r,c) for r <= c, 0 outside the block structure
Uval(r, c) ==
    LET i == SupnoOf(r)
        k == SupnoOf(c)
    IN IF r > c THEN 0
       ELSE IF r = c /\ r = zpiv THEN 0
       ELSE IF kind # "pattern" THEN (IF r = c THEN 1 ELSE 0)
       ELSE IF r = c THEN Udiag(r)
       ELSE IF i = k THEN scale * Entry(r, c)
       ELSE IF Usel[<<i, k>>] THEN scale * Entry(r, c) ELSE 0

RECURSIVE SetToSeq(_)
SetToSeq(S) ==
    IF S = {} THEN <<>>
    ELSE LET m == CHOOSE e \in S : \A o \in S : e <= o
         IN <<m>> \o SetToSeq(S \ {m})

RECURSIVE PanelRows(_)
PanelRows(blocks) ==
    IF blocks = <<>> THEN <<>>
    ELSE [r \in 1 .. SuperSize(Head(blocks)) |-> FstBlockC(Head(blocks)) + r - 1]
         \o PanelRows(Tail(blocks))

-----------------------------------------------------------------------------
(* The distributed factor as the distribution routine leaves it in Llu    *)

\* the block rows of block column k stored on p, diagonal block first
Dist_Lrowind(p, k) ==
    IF k % Pc # p % Pc THEN <<>>
    ELSE SetToSeq({i \in Supers : /\ i % Pr = p \div Pc
                                  /\ \/ i = k
                                     \/ (i > k /\ Lsel[<<i, k>>])})

\* the panel's values, column major, leading dimension nsupr = lsub[1];
\* the diagonal block holds L below the diagonal and U on and above it
PanelValues(rows, k) ==
    LET nsupr == Len(rows)
    IN [idx \in 0 .. (nsupr * SuperSize(k) - 1) |->
           LET r == rows[(idx % nsupr) + 1]
               c == FstBlockC(k) + (idx \div nsupr)
           IN IF r > c THEN Lval(r, c) ELSE Uval(r, c)]

\* the panel of block column k on p, its list of rows computed once
Dist_Lnzval(p, k) ==
    CHOOSE nzval \in {PanelValues(rows, k) : rows \in {PanelRows(Dist_Lrowind(p, k))}} : TRUE

\* the column blocks k of global block row i of U stored on p, increasing
Dist_Ufstnz(p, i) ==
    SetToSeq({k \in Supers : k > i /\ k % Pc = p % Pc /\ Usel[<<i, k>>]})

\* members of the broadcast tree of column k, root first: the diagonal process and the
\* processes of its column that hold an off-diagonal block of column k
Dist_LBtree(k) ==
    <<(k % Pr) * Pc + (k % Pc)>>
    \o SetToSeq({q \in Procs : /\ q # (k % Pr) * Pc + (k % Pc)
                               /\ q % Pc = k % Pc
                               /\ \E i \in Supers : i > k /\ i % Pr = q \div Pc /\ Lsel[<<i, k>>]})

\* members of the reduction tree of block row i, root first: the diagonal process and the
\* processes of its row that hold an off-diagonal block of block row i
Dist_LRtree(i) ==
    <<(i % Pr) * Pc + (i % Pc)>>
    \o SetToSeq({q \in Procs : /\ q # (i % Pr) * Pc + (i % Pc)
                               /\ q \div Pc = i % Pr
                               /\ \E k \in Supers : k < i /\ k % Pc = q % Pc /\ Lsel[<<i, k>>]})

\* the process rows X_k is sent to in the backward sweep
Dist_bsendx(k) ==
    {pr \in 0 .. (Pr - 1) : /\ pr # k % Pr
                            /\ \E i \in Supers : i < k /\ i % Pr = pr /\ Usel[<<i, k>>]}

\* the buffer of an inverse of the diagonal block of supernode k on a process of block
\* column k, as allocated: the triangle that pdCompute_Diag_Inv does not write is zero
Dist_InvBuffer(p, k) == IF k % Pc = p % Pc THEN Zeros(SuperSize(k) * SuperSize(k)) ELSE <<>>

Dist_Llu ==
    [Lrowind_bc_ptr |-> [p \in Procs |-> [k \in Supers |-> Dist_Lrowind(p, k)]],
     Lnzval_bc_ptr |-> [p \in Procs |-> [k \in Supers |-> Dist_Lnzval(p, k)]],
     Lnzval |-> [rc \in Rows \X Rows |-> Lval(rc[1], rc[2])],
     Unzval |-> [rc \in Rows \X Rows |-> Uval(rc[1], rc[2])],
     Ufstnz_br_ptr |-> [p \in Procs |-> [lk \in LocalRows(p) |-> Dist_Ufstnz(p, GlobalRow(p, lk))]],
     LBtree_ptr |-> [k \in Supers |-> Dist_LBtree(k)],
     LRtree_ptr |-> [i \in Supers |-> Dist_LRtree(i)],
     fmod |-> [p \in Procs |-> [lk \in LocalRows(p) |->
                 Cardinality({k \in Supers : /\ k < GlobalRow(p, lk)
                                             /\ k % Pc = p % Pc
                                             /\ Lsel[<<GlobalRow(p, lk), k>>]})]],
     bmod |-> [p \in Procs |-> [lk \in LocalRows(p) |-> Len(Dist_Ufstnz(p, GlobalRow(p, lk)))]],
     nfrecvx |-> [p \in Procs |->
                 Cardinality({k \in Supers : /\ p # (k % Pr) * Pc + (k % Pc)
                                             /\ p % Pc = k % Pc
                                             /\ \E i \in Supers : /\ i > k
                                                                   /\ i % Pr = p \div Pc
                                                                   /\ Lsel[<<i, k>>]})],
     nbrecvx |-> [p \in Procs |->
                 Cardinality({k \in Supers : k % Pc = p % Pc /\ (p \div Pc) \in Dist_bsendx(k)})],
     bsendx_plist |-> [k \in Supers |-> Dist_bsendx(k)],
     Linv_bc_ptr |-> [p \in Procs |-> [k \in Supers |-> Dist_InvBuffer(p, k)]],
     Uinv_bc_ptr |-> [p \in Procs |-> [k \in Supers |-> Dist_InvBuffer(p, k)]],
     inv |-> 0]

\* pdCompute_Diag_Inv: the triangles of the diagonal block of a panel are copied into the
\* buffers Linv and Uinv, whose other entries stay as they were, and then inverted
LinvInit(knsupc, lusup, nsupr, Linv) ==
    Array([idx \in 0 .. (knsupc * knsupc - 1) |->
              LET i == idx % knsupc
                  j == idx \div knsupc
              IN IF i = j THEN 1 ELSE IF i > j THEN lusup[j * nsupr + i] ELSE Linv[idx]])

UinvInit(knsupc, lusup, nsupr, Uinv) ==
    Array([idx \in 0 .. (knsupc * knsupc - 1) |->
              LET i == idx % knsupc
                  j == idx \div knsupc
              IN IF i < j + 1 THEN lusup[j * nsupr + i] ELSE Uinv[idx]])

\* Linv and Uinv of the diagonal block of supernode k, computed by its diagonal process
Diag_Linv(k) ==
    dtrtri_LU(SuperSize(k), LinvInit(SuperSize(k), Llu.Lnzval_bc_ptr[DiagProc(k)][k],
                                     Len(PanelRows(Llu.Lrowind_bc_ptr[DiagProc(k)][k])),
                                     Llu.Linv_bc_ptr[DiagProc(k)][k]))

Diag_Uinv(k) ==
    dtrtri_UN(SuperSize(k), UinvInit(SuperSize(k), Llu.Lnzval_bc_ptr[DiagProc(k)][k],
                                     Len(PanelRows(Llu.Lrowind_bc_ptr[DiagProc(k)][k])),
                                     Llu.Uinv_bc_ptr[DiagProc(k)][k]))

\* the local INFO after the two dtrtri calls of block k: the second call's result
\* (the inverse of a unit triangle never reports a zero pivot)
Diag_INFO(k) ==
    dtrtri_UN_INFO(SuperSize(k), UinvInit(SuperSize(k), Llu.Lnzval_bc_ptr[DiagProc(k)][k],
                                          Len(PanelRows(Llu.Lrowind_bc_ptr[DiagProc(k)][k])),
                                          Llu.Uinv_bc_ptr[DiagProc(k)][k]))

-----------------------------------------------------------------------------
(* Reading Llu *)

Lrowind_bc_ptr(p, k) == Llu.Lrowind_bc_ptr[p][k]
\* the off-diagonal blocks of the panel, in panel order
LOffDiag(p, k) == SelectSeq(Llu.Lrowind_bc_ptr[p][k], LAMBDA i : i # k)
Lnzval_bc_ptr(p, k) == Llu.Lnzval_bc_ptr[p][k]
\* lsub[1]: the number of rows of the panel
nsuprOf(p, k) == Len(PanelRows(Llu.Lrowind_bc_ptr[p][k]))
Linv_bc_ptr(p, k) == Llu.Linv_bc_ptr[p][k]
Uinv_bc_ptr(p, k) == Llu.Uinv_bc_ptr[p][k]
Lval_at(r, c) == Llu.Lnzval[<<r, c>>]
Uval_at(r, c) == Llu.Unzval[<<r, c>>]
bsendx_plist(k) == Llu.bsendx_plist[k]

PosIn(seq, p) == CHOOSE j \in 1 .. Len(seq) : seq[j] = p
IsMember(seq, p) == \E j \in 1 .. Len(seq) : seq[j] = p

\* the children of p in the tree over seq
TreeChildren(seq, p) ==
    IF ~IsMember(seq, p) THEN <<>>
    ELSE IF shape = "flat"
         THEN (IF PosIn(seq, p) = 1 THEN Tail(seq) ELSE <<>>)
         ELSE (IF PosIn(seq, p) < Len(seq) THEN <<seq[PosIn(seq, p) + 1]>> ELSE <<>>)

TreeParent(seq, p) ==
    IF shape = "flat" THEN seq[1] ELSE seq[PosIn(seq, p) - 1]

\* LBtree_ptr[LBj(k)] != NULL on p
HasLBtree(p, k) == Len(Llu.LBtree_ptr[k]) > 1 /\ IsMember(Llu.LBtree_ptr[k], p)
BcTree_IsRoot(p, k) == Llu.LBtree_ptr[k][1] = p
BcTree_getDestCount(p, k) == Len(TreeChildren(Llu.LBtree_ptr[k], p))
\* LRtree_ptr[LBi(i)] != NULL on p
HasLRtree(p, i) == Len(Llu.LRtree_ptr[i]) > 1 /\ IsMember(Llu.LRtree_ptr[i], p)
RdTree_IsRoot(p, i) == Llu.LRtree_ptr[i][1] = p
RdTree_GetDestCount(p, i) == Len(TreeChildren(Llu.LRtree_ptr[i], p))

\* the block rows i < k with a block U(i,k) stored on p
UColBlocks(p, k) ==
    {GlobalRow(p, lk) : lk \in {l \in LocalRows(p) :
                                  \E j \in 1 .. Len(Llu.Ufstnz_br_ptr[p][l]) :
                                      Llu.Ufstnz_br_ptr[p][l][j] = k}}

-----------------------------------------------------------------------------
(* The caller's row distribution of B *)

procs == Pr * Pc
m_loc(p) == IF p = procs - 1 THEN n - (n \div procs) * (procs - 1) ELSE n \div procs
fst_row(p) == p * (n \div procs)
ldb(p) == m_loc(p)
row_to_proc(l) == CHOOSE p \in Procs : fst_row(p) <= l /\ l < fst_row(p) + m_loc(p)

IdPerm == [i \in Rows |-> i]
RevPerm == [i \in Rows |-> n - 1 - i]
RotPerm == [i \in Rows |-> (i + 1) % n]
PermPairs == {<<IdPerm, IdPerm>>, <<RevPerm, RotPerm>>}
\* every permutation of the rows, and its inverse
Perms == {f \in [Rows -> Rows] : \A a \in Rows : \A b \in Rows : f[a] = f[b] => a = b}
Inverse(f) == [i \in Rows |-> CHOOSE l \in Rows : f[l] = i]
\* every perm_r with three perm_c: the identity, a rotation and the inverse of perm_r
RtPermPairs == {<<f, g>> : f \in Perms, g \in {IdPerm, RotPerm}} \cup {<<f, Inverse(f)>> : f \in Perms}

\* the right-hand sides: column 0 is 1, 2, .., n
Bentry(l, j) == (l + 1) * (1 - 2 * j) + j

Sweeps == {"L", "U"}

\* B as the caller passes it
CallerB ==
    [p \in Procs |->
        [idx \in 0 .. (m_loc(p) * nrhs - 1) |-> B0[<<fst_row(p) + (idx % ldb(p)), idx \div ldb(p)>>]]]

\* x and lsum as doubleCalloc_dist returns them
ZeroX ==
    [p \in Procs |->
        [lk \in LocalRows(p) |-> [hdr |-> 0, val |-> Zeros(SuperSize(GlobalRow(p, lk)) * nrhs)]]]

\* the state before the call, with the factor drawn from the families kinds, its zero
\* pivot from pivots and, for a factor that is not a pattern, the permutations from pairs;
\* the caller's info holds 0 or 1 when pdCompute_Diag_Inv is given a zero pivot; the legal
\* numbers of right-hand sides are nrhss, the supernode partitions xsups
InitWith(xsups, kinds, pairs, pivots, nrhss) ==
    /\ grid \in {[nprow |-> g[1], npcol |-> g[2]] : g \in Grids}
    /\ xsup \in xsups
    /\ kind \in kinds
    /\ Lsel \in (IF kind = "pattern" THEN [LowerBlk -> BOOLEAN]
                 ELSE IF kind = "bidiag" THEN {[ik \in LowerBlk |-> xsup[ik[1] + 1] = xsup[ik[2] + 2]]}
                 ELSE {[ik \in LowerBlk |-> FALSE]})
    /\ Usel \in (IF kind = "pattern"
                 THEN {[ik \in UpperBlk |-> Lsel[<<ik[2], ik[1]>>]], [ik \in UpperBlk |-> TRUE]}
                 ELSE {[ik \in UpperBlk |-> FALSE]})
    /\ scale \in (IF kind = "pattern" THEN 1 .. MaxVal ELSE {1})
    /\ supno = [i \in Rows |-> SupnoOf(i)]
    /\ zpiv \in pivots
    /\ Llu = Dist_Llu
    /\ \E pp \in (IF kind = "pattern" THEN PermPairs ELSE pairs) :
           perm_r = pp[1] /\ perm_c = pp[2]
    /\ nrhs \in nrhss \cup (IF kind = "pattern" THEN {} ELSE {BadArg})
    /\ n_in \in {n} \cup (IF kind = "pattern" THEN {} ELSE {BadArg})
    /\ shape \in (IF Pr >= 3 \/ Pc >= 3 THEN {"flat", "chain"} ELSE {"flat"})
    /\ B0 = [lj \in Rows \X (0 .. (nrhs - 1)) |->
                 IF kind = "bidiag" THEN 1 ELSE Bentry(lj[1], lj[2])]
    /\ pc = [p \in Procs |-> "factored"]
    /\ calls = 1
    /\ Bfirst = <<>>
    /\ INFO = [k \in Supers |-> 0]
    /\ B = CallerB
    /\ x = ZeroX
    /\ lsum = x
    /\ fmod = Llu.fmod
    /\ frecv = [p \in Procs |-> [lk \in LocalRows(p) |-> 0]]
    /\ nfrecvx = Llu.nfrecvx
    /\ nfrecvmod = [p \in Procs |-> 0]
    /\ nfrecvx_buf = [p \in Procs |-> 0]
    /\ recvbuf0 = [p \in Procs |-> 0]
    /\ fwdSlots = [p \in Procs |-> {}]
    /\ bmod = [p \in Procs |-> [lk \in LocalRows(p) |-> 0]]
    /\ brecv = [p \in Procs |-> [lk \in LocalRows(p) |-> 0]]
    /\ nbrecvx = Llu.nbrecvx
    /\ nbrecvmod = [p \in Procs |-> 0]
    /\ info \in (IF zpiv = NoPivot THEN {1} ELSE {0, 1})
    /\ alloc = [p \in Procs |-> {}]
    /\ pending = [p \in Procs |-> {}]
    /\ SolveMsgSent = [p \in Procs |-> 0]
    /\ coll = {}
    /\ chan = [sd \in Procs \X Procs |-> <<>>]
    /\ a2a = [c \in {"B_to_X", "X_to_B"} |-> [q \in Procs |-> [d \in Procs |-> <<>>]]]
    /\ nsolve = [sk \in Sweeps \X Supers |-> 0]
    /\ ndeliv = [skd \in Sweeps \X Supers \X Procs |-> 0]
    /\ solveLog = {}
    /\ recvLog = {}

InitFrom(kinds, pairs, pivots, nrhss) == InitWith(XsupSet, kinds, pairs, pivots, nrhss)

Init == InitFrom({"pattern", "bidiag", "identity"}, {<<IdPerm, IdPerm>>}, {NoPivot}, NrhsSet)

-----------------------------------------------------------------------------
(* pdCompute_Diag_Inv, called on every process before the solve: every     *)
(* diagonal process inverts the triangles of its diagonal blocks           *)

\* fault: only the processes of the first process row invert their diagonal blocks
IsDiagOwnerFirstRow(p, k) == MYROW(p) = PROW(k) /\ MYCOL(p) = PCOL(k) /\ MYROW(p) = 0

\* myrow == krow and mycol == kcol: p is the diagonal process of supernode k
IsDiagOwner(p, k) == MYROW(p) = PROW(k) /\ MYCOL(p) = PCOL(k)

pdCompute_Diag_Inv ==
    /\ \A p \in Procs : pc[p] = "factored"
    /\ Llu' = [Llu EXCEPT !.inv = 1,
                          !.Linv_bc_ptr = [p \in Procs |-> [k \in Supers |->
                                              IF IsDiagOwner(p, k) THEN Diag_Linv(k) ELSE @[p][k]]],
                          !.Uinv_bc_ptr = [p \in Procs |-> [k \in Supers |->
                                              IF IsDiagOwner(p, k) THEN Diag_Uinv(k) ELSE @[p][k]]]]
    /\ INFO' = [k \in Supers |-> IF IsDiagOwner(DiagProc(k), k) THEN Diag_INFO(k) ELSE 0]
    /\ pc' = [p \in Procs |-> "start"]
    /\ UNCHANGED <<argVars, calls, Bfirst, B, x, lsum, fwdVars, bwdVars, resVars, chan, a2a, obsVars>>

-----------------------------------------------------------------------------
(* Sequencing: F applied to the value of v, v evaluated once.  The        *)
(* statements of a handler run one after the other on the handler's state *)

Then(v, F(_)) == CHOOSE r \in {F(y) : y \in {v}} : TRUE

-----------------------------------------------------------------------------
(* Sending *)

\* append the messages of out (a sequence of [dst, msg]) to the channels of p
RECURSIVE Post(_, _, _)
Post(ch, p, out) ==
    IF out = <<>> THEN ch
    ELSE Post([ch EXCEPT ![<<p, Head(out).dst>>] = Append(@, Head(out).msg)], p, Tail(out))

\* BcTree_forwardMessageSimple: send the buffer to every child of p in LBtree[k], tag k
BcTree_forwardMessageSimple(p, k, buf) ==
    [j \in 1 .. Len(TreeChildren(Llu.LBtree_ptr[k], p)) |->
        [dst |-> TreeChildren(Llu.LBtree_ptr[k], p)[j],
         msg |-> [tag |-> k, hdr |-> buf.hdr, val |-> buf.val, what |-> "X"]]]

\* RdTree_forwardMessageSimple: send the partial sum to the parent of p in LRtree[i],
\* tag nsupers + i
RdTree_forwardMessageSimple(p, i, buf) ==
    <<[dst |-> TreeParent(Llu.LRtree_ptr[i], p),
       msg |-> [tag |-> nsupers + i, hdr |-> buf.hdr, val |-> buf.val, what |-> "LSUM"]]>>

\* fault: the contribution is stored instead of added
VecStore(a, b) == Array([i \in DOMAIN a |-> b[i]])

\* x[i] += recvbuf[i], x[i] += lsum[i]
VecAdd(a, b) == Array([i \in DOMAIN a |-> a[i] + b[i]])
VecSub(a, b) == Array([i \in DOMAIN a |-> a[i] - b[i]])

\* the product of block (ik, k) of L (sweep "L") or U (sweep "U") with the block vector xk
\* (knsupc x nrhs)
BlockTimes(sweep, ik, k, xk) ==
    LET iknsupc == SuperSize(ik)
        knsupc == SuperSize(k)
    IN Array([idx \in 0 .. (iknsupc * nrhs - 1) |->
                 LET i == idx % iknsupc
                     j == idx \div iknsupc
                 IN Sum([l \in 0 .. (knsupc - 1) |->
                            (IF sweep = "L"
                             THEN Lval_at(FstBlockC(ik) + i, FstBlockC(k) + l)
                             ELSE Uval_at(FstBlockC(ik) + i, FstBlockC(k) + l)) * xk[l + j * knsupc]],
                        0, knsupc - 1)])

-----------------------------------------------------------------------------
(* Forward sweep: diagonal solve and local block modifications.            *)
(* st = [x, lsum, mod, recv, out, ns, log] is the state of one process     *)
(* while it runs a handler: its x, lsum, fmod, frecv, the messages it has  *)
(* sent, and the observation variables.                                    *)

\* the value stored in fmod[lk] / bmod[lk] by a diagonal solve
SolvedMark == 0 - 1

\* fault: the inverse of the upper triangle is applied in the forward solve
DiagSolveL_Uinv(p, k, xval) ==
    dgemm(SuperSize(k), nrhs, SuperSize(k), Uinv_bc_ptr(p, k), SuperSize(k), xval, SuperSize(k))

\* fault: the triangular solve of the forward sweep is given the upper triangle
DiagSolveL_TrsmUpper(p, k, xval) ==
    LET knsupc == SuperSize(k)
    IN IF Llu.inv = 1
       THEN dgemm(knsupc, nrhs, knsupc, Linv_bc_ptr(p, k), knsupc, xval, knsupc)
       ELSE dtrsm_LUNN(knsupc, nrhs, Lnzval_bc_ptr(p, k), nsuprOf(p, k), xval)

\* X_k := inv(L_kk) * X_k
DiagSolveL(p, k, xval) ==
    LET knsupc == SuperSize(k)
    IN IF Llu.inv = 1
       THEN dgemm(knsupc, nrhs, knsupc, Linv_bc_ptr(p, k), knsupc, xval, knsupc)
       ELSE dtrsm_LLNU(knsupc, nrhs, Lnzval_bc_ptr(p, k), nsuprOf(p, k), xval)

RECURSIVE dlsum_fmod_inv(_, _, _, _, _)
RECURSIVE SolveXkL(_, _, _)

\* fmod[lk] = -1 and X_k := inv(L_kk) * X_k, recorded in the history
MarkSolvedL(st, p, k, xk) ==
    [st EXCEPT !.log = @ \cup {<<"L", k, st.mod[LBi(k)], st.recv[LBi(k)]>>},
               !.ns[<<"L", k>>] = @ + 1,
               !.mod[LBi(k)] = SolvedMark,
               !.x[LBi(k)].val = xk]

\* fault: X_k is sent down LBtree[k] twice
BroadcastXkTwice(st, p, k) ==
    IF HasLBtree(p, k)
    THEN [st EXCEPT !.out = @ \o BcTree_forwardMessageSimple(p, k, st.x[LBi(k)])
                                \o BcTree_forwardMessageSimple(p, k, st.x[LBi(k)])]
    ELSE st

\* X_k is sent down LBtree[k] where the tree exists
BroadcastXk(st, p, k) ==
    IF HasLBtree(p, k)
    THEN [st EXCEPT !.out = @ \o BcTree_forwardMessageSimple(p, k, st.x[LBi(k)])]
    ELSE st

\* fmod[lk] = -1, solve X_k, send it down LBtree[k], then the local block modifications
SolveXkL(st, p, k) ==
    Then(DiagSolveL(p, k, st.x[LBi(k)].val), LAMBDA xk :
    Then(MarkSolvedL(st, p, k, xk), LAMBDA st1 :
    Then(BroadcastXk(st1, p, k), LAMBDA st2 :
    Then(LOffDiag(p, k), LAMBDA blocks :
         dlsum_fmod_inv(st2, p, k, xk, blocks)))))

\* lsum[ik] -= L_ik,k * X[k] and --fmod[ik]
UpdateLsumL(st, ik, k, xk) ==
    [st EXCEPT !.lsum[LBi(ik)].val = VecSub(@, BlockTimes("L", ik, k, xk)),
               !.mod[LBi(ik)] = @ - 1]

\* the local modifications of block row ik are complete: off the diagonal the partial sum
\* goes up LRtree[ik] once the children have reported; on the diagonal process X[ik] +=
\* lsum[ik] and, when nothing is outstanding, the block row is solved
CompleteRowL(st, p, ik) ==
    IF st.mod[LBi(ik)] # 0 THEN st
    ELSE IF p # DiagProc(ik)
    THEN (IF st.recv[LBi(ik)] = 0
          THEN [st EXCEPT !.mod[LBi(ik)] = SolvedMark,
                          !.out = @ \o RdTree_forwardMessageSimple(p, ik, st.lsum[LBi(ik)])]
          ELSE st)
    ELSE Then([st EXCEPT !.x[LBi(ik)].val = VecAdd(@, st.lsum[LBi(ik)].val)], LAMBDA st3 :
              IF st3.recv[LBi(ik)] = 0 THEN SolveXkL(st3, p, ik) ELSE st3)

\* lsum[i] -= L_i,k * X[k] for the blocks i of the panel, in panel order
dlsum_fmod_inv(st, p, k, xk, blocks) ==
    IF blocks = <<>> THEN st
    ELSE Then(Head(blocks), LAMBDA ik :
         Then(UpdateLsumL(st, ik, k, xk), LAMBDA st1 :
         Then(CompleteRowL(st1, p, ik), LAMBDA st2 :
         Then(Tail(blocks), LAMBDA rest :
              dlsum_fmod_inv(st2, p, k, xk, rest)))))

-----------------------------------------------------------------------------
(* Entry of pdgstrs: the declarations, the test of the arguments and the   *)
(* allocation of the per-call arrays                                       *)

\* the position of n and of nrhs in the argument list of pdgstrs
ArgPos == [n |-> 1, nrhs |-> 9]

\* fault: nrhs is tested before n
TestInputNrhsFirst(nn, nr) == IF nr < 0 THEN 0 - 9 ELSE IF nn < 0 THEN 0 - 1 ELSE 0
\* fault: the arguments are not tested
TestInputNone(nn, nr) == 0

\* the test of the input parameters: the value stored into *info
TestInput(nn, nr) == IF nn < 0 THEN 0 - 1 ELSE IF nr < 0 THEN 0 - 9 ELSE 0

\* the arrays allocated between the test of the arguments and the redistribution of B
EntryAllocs == {"fmod", "frecv", "send_req", "lsum", "x", "recvbuf", "recvbuf_on", "rtemp", "ipiv"}

\* supno[i] as the code reads it, as <<value>>.  Inside the table it is the entry.  A read
\* outside the table is undefined: it returns the number of the last supernode of this
\* factor (the call goes on with the nsupers of the factor), or it returns anything else
\* or traps, and nothing more is known of the call (<<>>)
supno_at(i) == IF i \in DOMAIN supno THEN {<<supno[i]>>} ELSE {<<nsupers - 1>>, <<>>}

\* every process enters pdgstrs: msgcnt is allocated by its declaration, the processes
\* meet in MPI_Barrier, the arguments are tested, and either the call returns with a
\* negative info or nsupers = supno[n-1] + 1 is read, the counters are copied and the
\* per-call arrays are allocated
pdgstrs_Enter ==
    /\ \A p \in Procs : pc[p] = "start"
    /\ nfrecvx' = Llu.nfrecvx
    /\ nfrecvmod' = [p \in Procs |-> 0]
    /\ nfrecvx_buf' = [p \in Procs |-> 0]
    /\ recvbuf0' = [p \in Procs |-> 0]
    /\ fwdSlots' = [p \in Procs |-> {}]
    /\ nbrecvx' = Llu.nbrecvx
    /\ nbrecvmod' = [p \in Procs |-> 0]
    /\ coll' = coll \cup {"MPI_Barrier"}
    /\ \E inf \in {TestInput(n_in, nrhs)} :
          /\ info' = inf
          /\ IF inf # 0
             THEN /\ pc' = [p \in Procs |-> "error"]
                  /\ alloc' = [p \in Procs |-> alloc[p] \cup {"msgcnt"}]
                  /\ UNCHANGED <<fmod, frecv, x, lsum, SolveMsgSent>>
             ELSE \E last \in supno_at(n_in - 1) :
                  IF last = <<>>
                  THEN /\ pc' = [p \in Procs |-> "undefined"]
                       /\ alloc' = [p \in Procs |-> alloc[p] \cup {"msgcnt"}]
                       /\ UNCHANGED <<fmod, frecv, x, lsum, SolveMsgSent>>
                  ELSE /\ pc' = [p \in Procs |-> "entered"]
                       /\ alloc' = [p \in Procs |-> alloc[p] \cup {"msgcnt"} \cup EntryAllocs]
                       /\ fmod' = [p \in Procs |-> [lk \in LocalRows(p) |-> Llu.fmod[p][lk]]]
                       /\ frecv' = [p \in Procs |-> [lk \in LocalRows(p) |-> 0]]
                       /\ x' = ZeroX
                       /\ lsum' = ZeroX
                       /\ SolveMsgSent' = [p \in Procs |-> 0]
    /\ UNCHANGED <<cfgVars, B, bmod, brecv, pending, chan, a2a, obsVars>>

-----------------------------------------------------------------------------
(* Redistribution of B into X (pdReDistribute_B_to_X)                      *)

\* fault: the row permutation is left out
PermRowNoPermR(l) == perm_c[l]
\* fault: the column permutation is left out
PermRowNoPermC(l) == perm_r[l]

\* irow = perm_c[perm_r[l]]: the row of X that row l of B is loaded into
PermRow(l) == perm_c[perm_r[l]]

\* the send buffers of p: row l = fst_row + i goes to the diagonal process of the
\* supernode of irow = perm_c[perm_r[l]], as (irow, the nrhs values of the row)
RECURSIVE B_to_X_pack(_, _, _)
B_to_X_pack(p, i, buf) ==
    IF i >= m_loc(p) THEN buf
    ELSE LET l == fst_row(p) + i
             irow == PermRow(l)
             gbi == BlockNum(irow)
             dest == PNUM(PROW(gbi), PCOL(gbi))
             row == [irow |-> irow, val |-> Array([j \in 0 .. (nrhs - 1) |-> B[p][i + j * ldb(p)]])]
         IN Then([buf EXCEPT ![dest] = Append(@, row)], LAMBDA buf1 : B_to_X_pack(p, i + 1, buf1))

\* what MPI_Alltoallv delivers to p: the rows every source q packed for p, by rank of q
RECURSIVE RecvBuf(_, _, _)
RecvBuf(sent, p, q) ==
    IF q >= procs THEN <<>> ELSE sent[q][p] \o RecvBuf(sent, p, q + 1)

\* fault: the row is stored at its global index, FstBlockC(k) is not subtracted
RECURSIVE B_to_X_copyAbs(_, _)
B_to_X_copyAbs(xp, rows) ==
    IF rows = <<>> THEN xp
    ELSE LET k == BlockNum(Head(rows).irow)
             knsupc == SuperSize(k)
             lk == LBi(k)
             irow == Head(rows).irow
             val == Array([idx \in DOMAIN xp[lk].val |->
                              IF idx % knsupc = irow THEN Head(rows).val[idx \div knsupc]
                              ELSE xp[lk].val[idx]])
         IN Then([xp EXCEPT ![lk] = [hdr |-> k, val |-> val]], LAMBDA xp1 :
            Then(Tail(rows), LAMBDA rest : B_to_X_copyAbs(xp1, rest)))

\* copy the received rows into X: x[l - XK_H] = k, x[l + irow + j*knsupc] = value
\* fault: every right-hand side of a row receives the value of the first one
RECURSIVE B_to_X_copyFirstRhs(_, _)
B_to_X_copyFirstRhs(xp, rows) ==
    IF rows = <<>> THEN xp
    ELSE LET k == BlockNum(Head(rows).irow)
             knsupc == SuperSize(k)
             lk == LBi(k)
             irow == Head(rows).irow - FstBlockC(k)
             val == Array([idx \in DOMAIN xp[lk].val |->
                              IF idx % knsupc = irow THEN Head(rows).val[0]
                              ELSE xp[lk].val[idx]])
         IN Then([xp EXCEPT ![lk] = [hdr |-> k, val |-> val]], LAMBDA xp1 :
            Then(Tail(rows), LAMBDA rest : B_to_X_copyFirstRhs(xp1, rest)))

RECURSIVE B_to_X_copy(_, _)
B_to_X_copy(xp, rows) ==
    IF rows = <<>> THEN xp
    ELSE LET k == BlockNum(Head(rows).irow)
             knsupc == SuperSize(k)
             lk == LBi(k)
             irow == Head(rows).irow - FstBlockC(k)
             val == Array([idx \in DOMAIN xp[lk].val |->
                              IF idx % knsupc = irow THEN Head(rows).val[idx \div knsupc]
                              ELSE xp[lk].val[idx]])
         IN Then([xp EXCEPT ![lk] = [hdr |-> k, val |-> val]], LAMBDA xp1 :
            Then(Tail(rows), LAMBDA rest : B_to_X_copy(xp1, rest)))

\* the whole exchange: every process packs its rows, MPI_Alltoallv moves them, and
\* every process copies what it received into its X
ReDistribute_B_to_X ==
    /\ \A p \in Procs : pc[p] = "entered"
    /\ \E sent \in {[q \in Procs |-> B_to_X_pack(q, 0, [d \in Procs |-> <<>>])]} :
          /\ a2a' = [a2a EXCEPT !["B_to_X"] = sent]
          /\ x' = [p \in Procs |-> B_to_X_copy(x[p], RecvBuf(sent, p, 0))]
    /\ pc' = [p \in Procs |-> "fwd_setup"]
    /\ UNCHANGED <<cfgVars, B, lsum, fwdVars, bwdVars, resVars, chan, obsVars>>

-----------------------------------------------------------------------------
(* Forward sweep *)

\* frecv[lk] = RdTree_GetDestCount(LRtree_ptr[lk]) where the tree exists
InitFrecv(p) ==
    Array([lk \in LocalRows(p) |->
              IF HasLRtree(p, GlobalRow(p, lk)) THEN RdTree_GetDestCount(p, GlobalRow(p, lk)) ELSE 0])

\* leafsups: the diagonal block rows without a reduction tree whose fmod is 0
\* fault: no block is taken as a leaf
IsLeafNever(p, lk, fm) == FALSE

\* fault: a diagonal block with fmod = 0 is a leaf although its row has a reduction tree
IsLeafFmodOnly(p, lk, fm) ==
    /\ MYCOL(p) = PCOL(GlobalRow(p, lk))
    /\ fm[lk] = 0

IsLeaf(p, lk, fm) ==
    /\ ~HasLRtree(p, GlobalRow(p, lk))
    /\ MYCOL(p) = PCOL(GlobalRow(p, lk))
    /\ fm[lk] = 0
leafsups(p, fm) == SetToSeq({GlobalRow(p, lk) : lk \in {l \in LocalRows(p) : IsLeaf(p, l, fm)}})

RECURSIVE SolveLeaves(_, _, _)
SolveLeaves(st, p, leaves) ==
    IF leaves = <<>> THEN st
    ELSE Then(Head(leaves), LAMBDA k :
         Then(SolveXkL(st, p, k), LAMBDA st1 :
         Then(Tail(leaves), LAMBDA rest :
              SolveLeaves(st1, p, rest))))

\* the headers of lsum: lsum[il - LSUM_H] = k
\* fault: the header holds the local block number lk
LsumHeadersLocal(p, ls) == Array([lk \in DOMAIN ls |-> [ls[lk] EXCEPT !.hdr = lk]])

LsumHeaders(p, ls) == Array([lk \in DOMAIN ls |-> [ls[lk] EXCEPT !.hdr = GlobalRow(p, lk)]])

\* fault: fmod and bmod are the arrays of Llu themselves
StoreModAliased(llu, field, p, mod) == [llu EXCEPT ![field][p] = mod]

\* a store into the counters fmod[] or bmod[] of p: the arrays are copies of the
\* templates, so the store leaves Llu->fmod and Llu->bmod as they are
StoreMod(llu, field, p, mod) == llu

\* the buffer a posted message is sent from: a partial sum from lsum, an X_k from x on the
\* process that solved it, and from the receive buffer on a process that forwards it
SendSource(p, m) ==
    IF m.what = "LSUM" THEN "lsum" ELSE IF DiagProc(m.hdr) = p THEN "x" ELSE "recvbuf_BC_fwd"

\* the requests of the non-blocking sends of out, kept in the tree or in send_req
Requests(via, p, out) == {<<via, SendSource(p, out[j].msg)>> : j \in 1 .. Len(out)}

\* the arrays allocated by the set-up of the forward sweep
FwdAllocs(p) ==
    {"Lrowind_bc_2_lsum", "LBTree_active", "LBList", "LBTree_finish",
     "LRTree_active", "LRList", "LRTree_finish", "leafsups", "recvbuf_BC_fwd"}
    \cup (IF \E k \in Supers : HasLBtree(p, k) THEN {"BcTree requests"} ELSE {})
    \cup (IF \E k \in Supers : HasLRtree(p, k) THEN {"RdTree requests"} ELSE {})

\* set-up of the forward sweep and the leaf solves
ForwardSetup(p) ==
    /\ pc[p] = "fwd_setup"
    /\ \E fr \in {InitFrecv(p)} :
       \E st0 \in {[x |-> x[p], lsum |-> LsumHeaders(p, lsum[p]), mod |-> fmod[p],
                    recv |-> fr, out |-> <<>>, ns |-> nsolve, log |-> solveLog]} :
       \E leaves \in {leafsups(p, fmod[p])} :
       \E st \in {SolveLeaves(st0, p, leaves)} :
          /\ x' = [x EXCEPT ![p] = st.x]
          /\ lsum' = [lsum EXCEPT ![p] = st.lsum]
          /\ fmod' = [fmod EXCEPT ![p] = st.mod]
          /\ frecv' = [frecv EXCEPT ![p] = fr]
          /\ nfrecvmod' = [nfrecvmod EXCEPT ![p] = Sum([lk \in 0 .. (nlb - 1) |->
                                IF lk \in LocalRows(p) THEN fr[lk] ELSE 0], 0, nlb - 1)]
          /\ nfrecvx_buf' = [nfrecvx_buf EXCEPT ![p] = 0]
          /\ recvbuf0' = [recvbuf0 EXCEPT ![p] = 0]
          /\ fwdSlots' = [fwdSlots EXCEPT ![p] = {}]
          /\ chan' = Post(chan, p, st.out)
          /\ pending' = [pending EXCEPT ![p] = @ \cup Requests("tree", p, st.out)]
          /\ Llu' = StoreMod(Llu, "fmod", p, st.mod)
          /\ nsolve' = st.ns
          /\ solveLog' = st.log
    /\ alloc' = [alloc EXCEPT ![p] = @ \cup FwdAllocs(p)]
    /\ pc' = [pc EXCEPT ![p] = "fwd"]
    /\ UNCHANGED <<inVars, B, nfrecvx, bwdVars, info, SolveMsgSent, coll, a2a, ndeliv, recvLog>>

\* status.MPI_TAG < nsupers: the message is an X_k of the broadcast tree
IsXkTag(tag) == tag < nsupers

\* nsupers <= status.MPI_TAG < 2*nsupers: the message is a partial sum
IsLsumTag(tag) == tag >= nsupers /\ tag < nsupers * 2
\* fault: the counter is left as it is
DecrNone(c) == c
\* fault: the counter is incremented
DecrUp(c) == c + 1

\* --nfrecvx, --nfrecvmod, --frecv[lk]
Decr(c) == c - 1
\* fault: the outstanding remote contributions are not tested
ReadyModOnly(recvv, modv) == modv = 0

\* the block row can be solved (or its partial sum forwarded)
Ready(recvv, modv) == recvv = 0 /\ modv = 0
\* fault: a received X_k is never forwarded
ForwardsXkNever(p, tag) == FALSE

\* the received X_k is forwarded to the children of this process
ForwardsXk(p, tag) == BcTree_getDestCount(p, tag) > 0

\* fault: nfrecvx_buf is not advanced after a forward
NextSlotSame(p, k, buf) == buf

\* nfrecvx_buf after the handling of a received X_k: advanced when the buffer was handed to
\* BcTree_forwardMessageSimple
NextSlot(p, k, buf) == IF ForwardsXk(p, k) THEN buf + 1 ELSE buf

\* handler of a received X_k
\* fault: the forwarded message is taken from x, as in the leaf loop, not from recvbuf0
FwdRecvXk_FromX(st, p, m) ==
    Then(IF ForwardsXk(p, m.tag)
         THEN [st EXCEPT !.out = @ \o BcTree_forwardMessageSimple(p, m.tag, st.x[LBi(m.tag)])]
         ELSE st, LAMBDA st1 :
         IF Lrowind_bc_ptr(p, m.hdr) # <<>>
         THEN dlsum_fmod_inv(st1, p, m.hdr, m.val, Lrowind_bc_ptr(p, m.hdr))
         ELSE st1)

FwdRecvXk(st, p, m) ==
    Then(IF ForwardsXk(p, m.tag)
         THEN [st EXCEPT !.out = @ \o BcTree_forwardMessageSimple(p, m.tag, m)]
         ELSE st, LAMBDA st1 :
         IF Lrowind_bc_ptr(p, m.hdr) # <<>>
         THEN dlsum_fmod_inv(st1, p, m.hdr, m.val, Lrowind_bc_ptr(p, m.hdr))
         ELSE st1)

\* fault: the root of LRtree[k] adds the partial sum to lsum[k], as the other members do
FwdRecvLsum_RootIntoLsum(st, p, m) ==
    Then([st EXCEPT !.recv[LBi(m.hdr)] = Decr(@)], LAMBDA st1 :
         Then([st1 EXCEPT !.lsum[LBi(m.hdr)].val = VecAdd(@, m.val)], LAMBDA st2 :
              IF Ready(st2.recv[LBi(m.hdr)], st2.mod[LBi(m.hdr)])
              THEN (IF RdTree_IsRoot(p, m.hdr)
                    THEN SolveXkL(st2, p, m.hdr)
                    ELSE [st2 EXCEPT !.mod[LBi(m.hdr)] = SolvedMark,
                                     !.out = @ \o RdTree_forwardMessageSimple(p, m.hdr,
                                                                             st2.lsum[LBi(m.hdr)])])
              ELSE st2))

\* fault: a member of LRtree[k] that is not the root sends its sum on when frecv[lk]
\* reaches zero and does not mark the block row
FwdRecvLsum_NoMark(st, p, m) ==
    Then([st EXCEPT !.recv[LBi(m.hdr)] = Decr(@)], LAMBDA st1 :
         IF RdTree_IsRoot(p, m.hdr)
         THEN Then([st1 EXCEPT !.x[LBi(m.hdr)].val = VecAdd(@, m.val)], LAMBDA st2 :
                   IF Ready(st2.recv[LBi(m.hdr)], st2.mod[LBi(m.hdr)])
                   THEN SolveXkL(st2, p, m.hdr)
                   ELSE st2)
         ELSE Then([st1 EXCEPT !.lsum[LBi(m.hdr)].val = VecAdd(@, m.val)], LAMBDA st2 :
                   IF Ready(st2.recv[LBi(m.hdr)], st2.mod[LBi(m.hdr)])
                   THEN [st2 EXCEPT !.out = @ \o RdTree_forwardMessageSimple(p, m.hdr,
                                                                            st2.lsum[LBi(m.hdr)])]
                   ELSE st2))

\* fault: the root of LRtree[k] counts the partial sum and does not add it to X[k]
FwdRecvLsum_Dropped(st, p, m) ==
    Then([st EXCEPT !.recv[LBi(m.hdr)] = Decr(@)], LAMBDA st1 :
         IF RdTree_IsRoot(p, m.hdr)
         THEN (IF Ready(st1.recv[LBi(m.hdr)], st1.mod[LBi(m.hdr)])
               THEN SolveXkL(st1, p, m.hdr)
               ELSE st1)
         ELSE Then([st1 EXCEPT !.lsum[LBi(m.hdr)].val = VecAdd(@, m.val)], LAMBDA st2 :
                   IF Ready(st2.recv[LBi(m.hdr)], st2.mod[LBi(m.hdr)])
                   THEN [st2 EXCEPT !.mod[LBi(m.hdr)] = SolvedMark,
                                    !.out = @ \o RdTree_forwardMessageSimple(p, m.hdr,
                                                                            st2.lsum[LBi(m.hdr)])]
                   ELSE st2))

\* handler of a received partial sum of block row k = m.hdr: on the root of LRtree[k] it
\* is added to X[k] and the block row is solved when nothing is outstanding; elsewhere it
\* is added to lsum[k] and the sum is sent on when nothing is outstanding
FwdRecvLsum_KeepFrecv(st, p, m) ==
    Then(st, LAMBDA st1 :
         IF RdTree_IsRoot(p, m.hdr)
         THEN Then([st1 EXCEPT !.x[LBi(m.hdr)].val = VecAdd(@, m.val)], LAMBDA st2 :
                   IF Ready(st2.recv[LBi(m.hdr)], st2.mod[LBi(m.hdr)])
                   THEN SolveXkL(st2, p, m.hdr)
                   ELSE st2)
         ELSE Then([st1 EXCEPT !.lsum[LBi(m.hdr)].val = VecAdd(@, m.val)], LAMBDA st2 :
                   IF Ready(st2.recv[LBi(m.hdr)], st2.mod[LBi(m.hdr)])
                   THEN [st2 EXCEPT !.mod[LBi(m.hdr)] = SolvedMark,
                                    !.out = @ \o RdTree_forwardMessageSimple(p, m.hdr,
                                                                            st2.lsum[LBi(m.hdr)])]
                   ELSE st2))

FwdRecvLsum(st, p, m) ==
    Then([st EXCEPT !.recv[LBi(m.hdr)] = Decr(@)], LAMBDA st1 :
         IF RdTree_IsRoot(p, m.hdr)
         THEN Then([st1 EXCEPT !.x[LBi(m.hdr)].val = VecAdd(@, m.val)], LAMBDA st2 :
                   IF Ready(st2.recv[LBi(m.hdr)], st2.mod[LBi(m.hdr)])
                   THEN SolveXkL(st2, p, m.hdr)
                   ELSE st2)
         ELSE Then([st1 EXCEPT !.lsum[LBi(m.hdr)].val = VecAdd(@, m.val)], LAMBDA st2 :
                   IF Ready(st2.recv[LBi(m.hdr)], st2.mod[LBi(m.hdr)])
                   THEN [st2 EXCEPT !.mod[LBi(m.hdr)] = SolvedMark,
                                    !.out = @ \o RdTree_forwardMessageSimple(p, m.hdr,
                                                                            st2.lsum[LBi(m.hdr)])]
                   ELSE st2))

\* the branch of the forward loop taken for a tag
FwdBranch(tag) == IF IsXkTag(tag) THEN "X" ELSE IF IsLsumTag(tag) THEN "LSUM" ELSE "none"

\* the body of the forward loop: dispatch on the tag of the received message
FwdHandle(st0, p, m) ==
    IF IsXkTag(m.tag) THEN FwdRecvXk(st0, p, m)
    ELSE IF IsLsumTag(m.tag) THEN FwdRecvLsum(st0, p, m)
    ELSE st0

\* one iteration of the forward loop: receive any message and handle it
FwdRecv(p) ==
    /\ pc[p] = "fwd"
    /\ nfrecvx[p] # 0 \/ nfrecvmod[p] # 0
    /\ \E q \in Procs :
        /\ chan[<<q, p>>] # <<>>
        /\ \E m \in {Head(chan[<<q, p>>])} :
           \E st0 \in {[x |-> x[p], lsum |-> lsum[p], mod |-> fmod[p], recv |-> frecv[p],
                        out |-> <<>>, ns |-> nsolve, log |-> solveLog]} :
           \E st \in {FwdHandle(st0, p, m)} :
              /\ nfrecvx' = [nfrecvx EXCEPT ![p] = IF IsXkTag(m.tag) THEN Decr(@) ELSE @]
              /\ nfrecvmod' = [nfrecvmod EXCEPT ![p] =
                                  IF ~IsXkTag(m.tag) /\ IsLsumTag(m.tag) THEN Decr(@) ELSE @]
              /\ fwdSlots' = [fwdSlots EXCEPT ![p] =
                                 IF IsXkTag(m.tag) /\ ForwardsXk(p, m.hdr)
                                 THEN @ \cup {recvbuf0[p]} ELSE @]
              /\ nfrecvx_buf' = [nfrecvx_buf EXCEPT ![p] =
                                    IF IsXkTag(m.tag) THEN NextSlot(p, m.hdr, @) ELSE @]
              /\ recvbuf0' = [recvbuf0 EXCEPT ![p] =
                                 IF IsXkTag(m.tag)
                                 THEN (IF ForwardsXk(p, m.hdr) THEN nfrecvx_buf'[p] ELSE @)
                                 ELSE IF IsLsumTag(m.tag) THEN nfrecvx_buf'[p] ELSE @]
              /\ ndeliv' = IF IsXkTag(m.tag)
                           THEN [ndeliv EXCEPT ![<<"L", m.tag, p>>] = @ + 1]
                           ELSE ndeliv
              /\ x' = [x EXCEPT ![p] = st.x]
              /\ lsum' = [lsum EXCEPT ![p] = st.lsum]
              /\ fmod' = [fmod EXCEPT ![p] = st.mod]
              /\ frecv' = [frecv EXCEPT ![p] = st.recv]
              /\ chan' = Post([chan EXCEPT ![<<q, p>>] = Tail(@)], p, st.out)
              /\ pending' = [pending EXCEPT ![p] = @ \cup Requests("tree", p, st.out)]
              /\ Llu' = StoreMod(Llu, "fmod", p, st.mod)
              /\ nsolve' = st.ns
              /\ solveLog' = st.log
              /\ recvLog' = recvLog \cup {<<"L", m.what, FwdBranch(m.tag)>>}
    /\ UNCHANGED <<inVars, pc, B, bwdVars, info, alloc, SolveMsgSent, coll, a2a>>

\* the forward loop ends, nfrecvx = 0 and nfrecvmod = 0: fmod and frecv are freed and
\* the sends of the trees are waited for
FwdExit(p) ==
    /\ pc[p] = "fwd"
    /\ nfrecvx[p] = 0 /\ nfrecvmod[p] = 0
    /\ alloc' = [alloc EXCEPT ![p] = @ \ {"fmod", "frecv"}]
    /\ pending' = [pending EXCEPT ![p] = {r \in @ : r[1] # "tree"}]
    /\ pc' = [pc EXCEPT ![p] = "fwd_done"]
    /\ UNCHANGED <<cfgVars, B, x, lsum, fwdVars, bwdVars, info, SolveMsgSent, coll, chan, a2a,
                   obsVars>>

-----------------------------------------------------------------------------
(* Backward sweep *)

\* fault: the inverse of the lower triangle is applied in the backward solve
DiagSolveU_Linv(p, k, xval) ==
    dgemm(SuperSize(k), nrhs, SuperSize(k), Linv_bc_ptr(p, k), SuperSize(k), xval, SuperSize(k))

\* X_k := inv(U_kk) * X_k
DiagSolveU(p, k, xval) ==
    LET knsupc == SuperSize(k)
    IN IF Llu.inv = 1
       THEN dgemm(knsupc, nrhs, knsupc, Uinv_bc_ptr(p, k), knsupc, xval, knsupc)
       ELSE dtrsm_LUNN(knsupc, nrhs, Lnzval_bc_ptr(p, k), nsuprOf(p, k), xval)

\* fault: the requests of the sends are not recorded in send_req
RecordedNone(cnt, out) == cnt

\* &send_req[Llu->SolveMsgSent++]: SolveMsgSent after the non-blocking sends of out
Recorded(cnt, out) == cnt + Len(out)

\* fault: X_k is sent with the tag of the forward sweep, k
SendXkU_TagK(p, k, buf) ==
    LET rows == SetToSeq(bsendx_plist(k))
    IN [j \in 1 .. Len(rows) |->
           [dst |-> PNUM(rows[j], PCOL(k)),
            msg |-> [tag |-> k, hdr |-> buf.hdr, val |-> buf.val, what |-> "X"]]]

\* MPI_Isend of X_k, tag Xk, to every process row pr with bsendx_plist[lk][pr] != EMPTY
SendXkU(p, k, buf) ==
    LET rows == SetToSeq(bsendx_plist(k))
    IN [j \in 1 .. Len(rows) |->
           [dst |-> PNUM(rows[j], PCOL(k)),
            msg |-> [tag |-> Xk, hdr |-> buf.hdr, val |-> buf.val, what |-> "X"]]]

\* Urbs[LBj(k)]: number of blocks of block column k of U stored on p
Urbs(p, k) == Cardinality(UColBlocks(p, k))
\* Ucb_indptr[LBj(k)][..].lbnum: those blocks, by increasing local block row
Ucb_indptr(p, k) == SetToSeq(UColBlocks(p, k))

RECURSIVE dlsum_bmod_inv(_, _, _, _, _)
RECURSIVE SolveXkU(_, _, _)

\* bmod[lk] = -1 and X_k := inv(U_kk) * X_k, recorded in the history
MarkSolvedU(st, p, k, xk) ==
    [st EXCEPT !.log = @ \cup {<<"U", k, st.mod[LBi(k)], st.recv[LBi(k)]>>},
               !.ns[<<"U", k>>] = @ + 1,
               !.mod[LBi(k)] = SolvedMark,
               !.x[LBi(k)].val = xk]

\* bmod[lk] = -1, solve X_k, send it to the process column, then the local block modifications
SolveXkU(st, p, k) ==
    Then(DiagSolveU(p, k, st.x[LBi(k)].val), LAMBDA xk :
    Then(MarkSolvedU(st, p, k, xk), LAMBDA st1 :
    Then([st1 EXCEPT !.out = @ \o SendXkU(p, k, st1.x[LBi(k)])], LAMBDA st2 :
    Then(Ucb_indptr(p, k), LAMBDA blocks :
         IF Urbs(p, k) # 0
         THEN dlsum_bmod_inv(st2, p, k, xk, blocks)
         ELSE st2))))

\* lsum[ik] -= U_ik,k * X[k] and --bmod[ik]
UpdateLsumU(st, ik, k, xk) ==
    [st EXCEPT !.lsum[LBi(ik)].val = VecSub(@, BlockTimes("U", ik, k, xk)),
               !.mod[LBi(ik)] = @ - 1]

\* the local modifications of block row ik are complete: off the diagonal the partial sum
\* is sent to the diagonal process (tag LSUM); on the diagonal process X[ik] += lsum[ik]
\* and, when nothing is outstanding, the block row is solved
CompleteRowU(st, p, ik) ==
    IF st.mod[LBi(ik)] # 0 THEN st
    ELSE IF p # DiagProc(ik)
    THEN [st EXCEPT !.out = Append(@, [dst |-> DiagProc(ik),
                                       msg |-> [tag |-> LSUM, hdr |-> st.lsum[LBi(ik)].hdr,
                                                val |-> st.lsum[LBi(ik)].val, what |-> "LSUM"]])]
    ELSE Then([st EXCEPT !.x[LBi(ik)].val = VecAdd(@, st.lsum[LBi(ik)].val)], LAMBDA st3 :
              IF st3.recv[LBi(ik)] = 0 THEN SolveXkU(st3, p, ik) ELSE st3)

\* lsum[i] -= U_i,k * X[k] for the blocks i of block column k
dlsum_bmod_inv(st, p, k, xk, blocks) ==
    IF blocks = <<>> THEN st
    ELSE Then(Head(blocks), LAMBDA ik :
         Then(UpdateLsumU(st, ik, k, xk), LAMBDA st1 :
         Then(CompleteRowU(st1, p, ik), LAMBDA st2 :
         Then(Tail(blocks), LAMBDA rest :
              dlsum_bmod_inv(st2, p, k, xk, rest)))))

\* fault: the diagonal process counts itself
mod_bit_all(q, lk) == IF Llu.bmod[q][lk] # 0 THEN 1 ELSE 0

\* mod_bit[lk] of process q: 1 iff q is off the diagonal of block row lk and bmod[lk] != 0
mod_bit(q, lk) ==
    IF MYCOL(q) # PCOL(GlobalRow(q, lk)) /\ Llu.bmod[q][lk] # 0 THEN 1 ELSE 0

\* MPI_Allreduce(mod_bit, brecv, nlb, MPI_SUM) over the process row of p
\* fault: the indicator bits are summed over the whole grid, not over the process row
InitBrecvGrid(p) ==
    Array([lk \in LocalRows(p) |->
              Sum([q \in Procs |-> IF lk \in LocalRows(q) THEN mod_bit(q, lk) ELSE 0],
                  0, Pr * Pc - 1)])

InitBrecv(p) ==
    Array([lk \in LocalRows(p) |->
              Sum([c \in 0 .. (Pc - 1) |-> mod_bit(PNUM(MYROW(p), c), lk)], 0, Pc - 1)])

\* the diagonal block rows of p
DiagRows(p) == {lk \in LocalRows(p) : MYCOL(p) = PCOL(GlobalRow(p, lk))}

\* the root loop: k = nsupers-1 down to 0 while nroot != 0
\* fault: the root loop runs over the blocks in increasing order
RECURSIVE SolveRootsUp(_, _, _, _)
SolveRootsUp(st, p, k, nroot) ==
    IF k < 0 \/ nroot = 0 THEN st
    ELSE IF /\ MYROW(p) = PROW(nsupers - 1 - k) /\ MYCOL(p) = PCOL(nsupers - 1 - k)
            /\ Ready(st.recv[LBi(nsupers - 1 - k)], st.mod[LBi(nsupers - 1 - k)])
         THEN Then(SolveXkU(st, p, nsupers - 1 - k), LAMBDA st1 :
              Then(k - 1, LAMBDA k1 :
              Then(nroot - 1, LAMBDA nroot1 : SolveRootsUp(st1, p, k1, nroot1))))
         ELSE Then(k - 1, LAMBDA k1 : SolveRootsUp(st, p, k1, nroot))

RECURSIVE SolveRoots(_, _, _, _)
SolveRoots(st, p, k, nroot) ==
    IF k < 0 \/ nroot = 0 THEN st
    ELSE IF MYROW(p) = PROW(k) /\ MYCOL(p) = PCOL(k) /\ Ready(st.recv[LBi(k)], st.mod[LBi(k)])
         THEN Then(SolveXkU(st, p, k), LAMBDA st1 :
              Then(k - 1, LAMBDA k1 :
              Then(nroot - 1, LAMBDA nroot1 : SolveRoots(st1, p, k1, nroot1))))
         ELSE Then(k - 1, LAMBDA k1 : SolveRoots(st, p, k1, nroot))

\* fault: no MPI_Barrier between the two sweeps
BarrierNone == TRUE

\* fault: the barrier is over the process row of the diagonal process of supernode 0 only
BarrierFirstRow ==
    \A q \in Procs : MYROW(q) = 0 =>
        pc[q] \notin {"factored", "start", "entered", "error", "fwd_setup", "fwd"}

\* every process has left its forward loop (MPI_Barrier after the forward sweep)
BarrierPassed ==
    \A q \in Procs : pc[q] \notin {"factored", "start", "entered", "error", "fwd_setup", "fwd"}

\* the arrays allocated by the set-up of the backward sweep
BwdAllocs == {"bmod", "brecv", "Urbs", "Ucb_indptr", "Ucb_valptr"}

\* lsum is zeroed again before the backward sweep
LsumZero(p, ls) ==
    Array([lk \in LocalRows(p) |-> [ls[lk] EXCEPT !.val = Zeros(SuperSize(GlobalRow(p, lk)) * nrhs)]])

\* fault: nroot stays zero, so that the root loop solves nothing
CountRootsNone(p, br, bm) == 0

\* nroot: the diagonal blocks of p that wait for nothing
CountRoots(p, br, bm) == Cardinality({lk \in DiagRows(p) : br[lk] = 0 /\ bm[lk] = 0})

\* set-up of the backward sweep and the root solves
BackwardSetup(p) ==
    /\ pc[p] = "fwd_done"
    /\ BarrierPassed
    /\ \E br \in {InitBrecv(p)} :
       \E st0 \in {[x |-> x[p], lsum |-> LsumZero(p, lsum[p]), mod |-> Llu.bmod[p],
                    recv |-> br, out |-> <<>>, ns |-> nsolve, log |-> solveLog]} :
       \E nroot \in {CountRoots(p, br, Llu.bmod[p])} :
       \E st \in {SolveRoots(st0, p, nsupers - 1, nroot)} :
          /\ x' = [x EXCEPT ![p] = st.x]
          /\ lsum' = [lsum EXCEPT ![p] = st.lsum]
          /\ bmod' = [bmod EXCEPT ![p] = st.mod]
          /\ brecv' = [brecv EXCEPT ![p] = st.recv]
          /\ nbrecvmod' = [nbrecvmod EXCEPT ![p] = Sum([lk \in 0 .. (nlb - 1) |->
                                IF lk \in DiagRows(p) THEN br[lk] ELSE 0], 0, nlb - 1)]
          /\ chan' = Post(chan, p, st.out)
          /\ pending' = [pending EXCEPT ![p] = @ \cup Requests("send_req", p, st.out)]
          /\ SolveMsgSent' = [SolveMsgSent EXCEPT ![p] = Recorded(@, st.out)]
          /\ Llu' = StoreMod(Llu, "bmod", p, st.mod)
          /\ nsolve' = st.ns
          /\ solveLog' = st.log
    /\ alloc' = [alloc EXCEPT ![p] = @ \cup BwdAllocs]
    /\ pc' = [pc EXCEPT ![p] = "bwd"]
    /\ UNCHANGED <<inVars, B, fwdVars, nbrecvx, info, coll, a2a, ndeliv, recvLog>>

\* handler of a received partial sum (tag LSUM): the receiver is the diagonal process
\* fault: the partial sum is added to lsum[k], not to X[k]
BwdRecvLsum_IntoLsum(st, p, m) ==
    Then([st EXCEPT !.lsum[LBi(m.hdr)].val = VecAdd(@, m.val), !.recv[LBi(m.hdr)] = Decr(@)],
         LAMBDA st1 : IF Ready(st1.recv[LBi(m.hdr)], st1.mod[LBi(m.hdr)])
                      THEN SolveXkU(st1, p, m.hdr)
                      ELSE st1)

BwdRecvLsum(st, p, m) ==
    Then([st EXCEPT !.x[LBi(m.hdr)].val = VecAdd(@, m.val), !.recv[LBi(m.hdr)] = Decr(@)],
         LAMBDA st1 : IF Ready(st1.recv[LBi(m.hdr)], st1.mod[LBi(m.hdr)])
                      THEN SolveXkU(st1, p, m.hdr)
                      ELSE st1)

\* the case of the backward loop's switch taken for a tag
BwdBranch(tag) == IF tag = Xk THEN "X" ELSE IF tag = LSUM THEN "LSUM" ELSE "none"

\* the body of the backward loop: switch on the tag of the received message
BwdHandle(st0, p, m) ==
    IF m.tag = Xk
    THEN Then(Ucb_indptr(p, m.hdr), LAMBDA blocks : dlsum_bmod_inv(st0, p, m.hdr, m.val, blocks))
    ELSE IF m.tag = LSUM THEN BwdRecvLsum(st0, p, m)
    ELSE st0

\* one iteration of the backward loop
BwdRecv(p) ==
    /\ pc[p] = "bwd"
    /\ nbrecvx[p] # 0 \/ nbrecvmod[p] # 0
    /\ \E q \in Procs :
        /\ chan[<<q, p>>] # <<>>
        /\ \E m \in {Head(chan[<<q, p>>])} :
           \E st0 \in {[x |-> x[p], lsum |-> lsum[p], mod |-> bmod[p], recv |-> brecv[p],
                        out |-> <<>>, ns |-> nsolve, log |-> solveLog]} :
           \E st \in {BwdHandle(st0, p, m)} :
              /\ nbrecvx' = [nbrecvx EXCEPT ![p] = IF m.tag = Xk THEN Decr(@) ELSE @]
              /\ nbrecvmod' = [nbrecvmod EXCEPT ![p] = IF m.tag = LSUM THEN Decr(@) ELSE @]
              /\ ndeliv' = IF m.tag = Xk
                           THEN [ndeliv EXCEPT ![<<"U", m.hdr, p>>] = @ + 1]
                           ELSE ndeliv
              /\ x' = [x EXCEPT ![p] = st.x]
              /\ lsum' = [lsum EXCEPT ![p] = st.lsum]
              /\ bmod' = [bmod EXCEPT ![p] = st.mod]
              /\ brecv' = [brecv EXCEPT ![p] = st.recv]
              /\ chan' = Post([chan EXCEPT ![<<q, p>>] = Tail(@)], p, st.out)
              /\ pending' = [pending EXCEPT ![p] = @ \cup Requests("send_req", p, st.out)]
              /\ SolveMsgSent' = [SolveMsgSent EXCEPT ![p] = Recorded(@, st.out)]
              /\ Llu' = StoreMod(Llu, "bmod", p, st.mod)
              /\ nsolve' = st.ns
              /\ solveLog' = st.log
              /\ recvLog' = recvLog \cup {<<"U", m.what, BwdBranch(m.tag)>>}
    /\ UNCHANGED <<inVars, pc, B, fwdVars, info, alloc, coll, a2a>>

-----------------------------------------------------------------------------
(* Redistribution of X into B (pdReDistribute_X_to_B)                      *)

\* the rows of the X blocks p owns as diagonal process, each sent to row_to_proc of the row
RECURSIVE X_to_B_pack(_, _, _, _)
X_to_B_pack(p, k, i, buf) ==
    IF k >= nsupers THEN buf
    ELSE IF DiagProc(k) # p \/ i >= SuperSize(k) THEN X_to_B_pack(p, k + 1, 0, buf)
    ELSE LET knsupc == SuperSize(k)
             lk == LBi(k)
             ii == FstBlockC(k) + i
             q == row_to_proc(ii)
             row == [irow |-> ii, val |-> Array([j \in 0 .. (nrhs - 1) |-> x[p][lk].val[i + j * knsupc]])]
         IN Then([buf EXCEPT ![q] = Append(@, row)], LAMBDA buf1 : X_to_B_pack(p, k, i + 1, buf1))

\* fault: the row is stored at its global index, fst_row is not subtracted
RECURSIVE X_to_B_copyAbs(_, _, _, _)
X_to_B_copyAbs(p, Bp, rows, i) ==
    IF i >= m_loc(p) THEN Bp
    ELSE LET irow == rows[i + 1].irow
             Bn == Array([idx \in DOMAIN Bp |->
                             IF idx % ldb(p) = irow THEN rows[i + 1].val[idx \div ldb(p)]
                             ELSE Bp[idx]])
         IN Then(Bn, LAMBDA Bp1 : X_to_B_copyAbs(p, Bp1, rows, i + 1))

\* B[irow - fst_row + j*ldb] = value, for the first m_loc received rows
RECURSIVE X_to_B_copy(_, _, _, _)
X_to_B_copy(p, Bp, rows, i) ==
    IF i >= m_loc(p) THEN Bp
    ELSE LET irow == rows[i + 1].irow - fst_row(p)
             Bn == Array([idx \in DOMAIN Bp |->
                             IF idx % ldb(p) = irow THEN rows[i + 1].val[idx \div ldb(p)]
                             ELSE Bp[idx]])
         IN Then(Bn, LAMBDA Bp1 : X_to_B_copy(p, Bp1, rows, i + 1))

\* the backward loop ends: nbrecvx = 0 and nbrecvmod = 0
BwdExit(p) ==
    /\ pc[p] = "bwd"
    /\ nbrecvx[p] = 0 /\ nbrecvmod[p] = 0
    /\ pc' = [pc EXCEPT ![p] = "x2b"]
    /\ UNCHANGED <<cfgVars, B, x, lsum, fwdVars, bwdVars, resVars, chan, a2a, obsVars>>

\* the whole exchange: nsupers = supno[n-1] + 1 is read, every diagonal process packs its
\* X blocks, MPI_Alltoallv moves the rows, and every process copies what it received into
\* its B
pdReDistribute_X_to_B ==
    /\ \E last \in supno_at(n_in - 1) :
          IF last = <<>>
          THEN /\ pc' = [p \in Procs |-> "undefined"]
               /\ UNCHANGED <<a2a, B>>
          ELSE /\ \E sent \in {[q \in Procs |-> X_to_B_pack(q, 0, 0, [d \in Procs |-> <<>>])]} :
                     /\ a2a' = [a2a EXCEPT !["X_to_B"] = sent]
                     /\ B' = [p \in Procs |-> X_to_B_copy(p, B[p], RecvBuf(sent, p, 0), 0)]
               /\ pc' = [p \in Procs |-> "done"]
    /\ UNCHANGED <<cfgVars, x, lsum, fwdVars, bwdVars, resVars, chan, obsVars>>

\* the call of pdReDistribute_X_to_B in pdgstrs, when both sweeps have ended
ReDistribute_X_to_B == (\A p \in Procs : pc[p] = "x2b") /\ pdReDistribute_X_to_B

-----------------------------------------------------------------------------
(* Exit of pdgstrs *)

\* the arrays freed under "Deallocate storage"
ExitFrees ==
    {"rtemp", "lsum", "x", "recvbuf", "Ucb_indptr", "Ucb_valptr", "Urbs", "bmod", "brecv"}

\* every process frees its storage
Deallocate ==
    /\ \A p \in Procs : pc[p] = "done"
    /\ alloc' = [p \in Procs |-> alloc[p] \ ExitFrees]
    /\ pc' = [p \in Procs |-> "freed"]
    /\ UNCHANGED <<cfgVars, B, x, lsum, fwdVars, bwdVars, info, pending, SolveMsgSent, coll,
                   chan, a2a, obsVars>>

\* every process waits for the SolveMsgSent requests of send_req, frees send_req, and
\* meets the others in the last MPI_Barrier; pdgstrs returns
WaitSends ==
    /\ \A p \in Procs : pc[p] = "freed"
    /\ pending' = [p \in Procs |-> {r \in pending[p] : r[1] # "send_req"}]
    /\ alloc' = [p \in Procs |-> alloc[p] \ {"send_req"}]
    /\ coll' = coll \cup {"MPI_Barrier at exit"}
    /\ pc' = [p \in Procs |-> "exit"]
    /\ UNCHANGED <<cfgVars, B, x, lsum, fwdVars, bwdVars, info, SolveMsgSent, chan, a2a, obsVars>>

-----------------------------------------------------------------------------
(* The caller solves again with the same B.  The local variables of the    *)
(* first call are gone; they are given the values they have in Init        *)

CallAgain ==
    /\ \A p \in Procs : pc[p] = "exit"
    /\ calls = 1
    /\ <<Pr, Pc>> \in TwoCallGrids
    /\ calls' = 2
    /\ Bfirst' = B
    /\ B' = CallerB
    /\ pc' = [p \in Procs |-> "start"]
    /\ a2a' = [c \in {"B_to_X", "X_to_B"} |-> [q \in Procs |-> [d \in Procs |-> <<>>]]]
    /\ nsolve' = [sk \in Sweeps \X Supers |-> 0]
    /\ ndeliv' = [skd \in Sweeps \X Supers \X Procs |-> 0]
    /\ solveLog' = {}
    /\ recvLog' = {}
    /\ x' = ZeroX
    /\ lsum' = ZeroX
    /\ fmod' = Llu.fmod
    /\ frecv' = [p \in Procs |-> [lk \in LocalRows(p) |-> 0]]
    /\ nfrecvx' = Llu.nfrecvx
    /\ nfrecvmod' = [p \in Procs |-> 0]
    /\ nfrecvx_buf' = [p \in Procs |-> 0]
    /\ recvbuf0' = [p \in Procs |-> 0]
    /\ fwdSlots' = [p \in Procs |-> {}]
    /\ bmod' = [p \in Procs |-> [lk \in LocalRows(p) |-> 0]]
    /\ brecv' = [p \in Procs |-> [lk \in LocalRows(p) |-> 0]]
    /\ nbrecvx' = Llu.nbrecvx
    /\ nbrecvmod' = [p \in Procs |-> 0]
    /\ UNCHANGED <<argVars, INFO, Llu, resVars, chan>>

-----------------------------------------------------------------------------

Next ==
    \/ pdCompute_Diag_Inv
    \/ pdgstrs_Enter
    \/ ReDistribute_B_to_X
    \/ \E p \in Procs : ForwardSetup(p)
    \/ \E p \in Procs : FwdRecv(p)
    \/ \E p \in Procs : FwdExit(p)
    \/ \E p \in Procs : BackwardSetup(p)
    \/ \E p \in Procs : BwdRecv(p)
    \/ \E p \in Procs : BwdExit(p)
    \/ ReDistribute_X_to_B
    \/ Deallocate
    \/ WaitSends
    \/ CallAgain

Spec == Init /\ [][Next]_vars

\* The two redistributions alone: pdReDistribute_X_to_B is run on the X that
\* pdReDistribute_B_to_X has filled, for the identity factor and many permutations
GatherScattered == (\A p \in Procs : pc[p] = "fwd_setup") /\ pdReDistribute_X_to_B

RtInit == InitFrom({"identity"}, RtPermPairs, {NoPivot}, NrhsSet)

RtNext ==
    \/ pdCompute_Diag_Inv
    \/ pdgstrs_Enter
    \/ ReDistribute_B_to_X
    \/ GatherScattered

RtSpec == RtInit /\ [][RtNext]_vars

\* the scheduling of the processes: a process that can take a step eventually takes one,
\* and a message that was sent is eventually received
FairSpec == Spec /\ WF_vars(Next)

-----------------------------------------------------------------------------
(* Reference quantities: the dense matrices and the sequential solution,  *)
(* none of which mentions the process grid                                *)

\* B' = Pc*Pr*B: row i of B' is the row l of B with perm_c[perm_r[l]] = i
Bperm(i, j) == B0[<<CHOOSE l \in Rows : perm_c[perm_r[l]] = i, j>>]

Lfull(r, c) == IF r = c THEN 1 ELSE Llu.Lnzval[<<r, c>>]
Ufull(r, c) == Llu.Unzval[<<r, c>>]

\* column j of L^{-1} B' by forward substitution, rows 0 .. n-1
RECURSIVE RefYcol(_, _, _)
RefYcol(j, i, acc) ==
    IF i >= n THEN acc
    ELSE RefYcol(j, i + 1,
                 acc @@ (i :> Bperm(i, j) - Sum([c \in 0 .. (i - 1) |-> Lfull(i, c) * acc[c]], 0, i - 1)))

\* column j of U^{-1} y by backward substitution, rows n-1 .. 0
RECURSIVE RefXcol(_, _, _)
RefXcol(y, i, acc) ==
    IF i < 0 THEN acc
    ELSE RefXcol(y, i - 1,
                 acc @@ (i :> ExactDiv(y[i] - Sum([c \in (i + 1) .. (n - 1) |-> Ufull(i, c) * acc[c]],
                                                  i + 1, n - 1),
                                       Ufull(i, i))))

RefY == [j \in 0 .. (nrhs - 1) |-> RefYcol(j, 0, <<>>)]
RefX == [j \in 0 .. (nrhs - 1) |-> RefXcol(RefY[j], n - 1, <<>>)]

\* row r, right-hand side j of X, read on the diagonal process of the supernode of r
XAt(r, j) ==
    x[DiagProc(supno[r])][LBi(supno[r])].val[(r - FstBlockC(supno[r])) + j * SuperSize(supno[r])]

\* row r, right-hand side j of B, read on the process that holds row r
BAt(r, j) == B[row_to_proc(r)][(r - fst_row(row_to_proc(r))) + j * ldb(row_to_proc(r))]

RhsCols == 0 .. (nrhs - 1)

\* the arguments of the call pass the test of pdgstrs
LegalCall == n_in >= 0 /\ nrhs >= 0

ForwardEnded == \A p \in Procs : pc[p] = "fwd_done"
BackwardEnded == \A p \in Procs : pc[p] = "x2b"
AllDone == \A p \in Procs : pc[p] \in {"done", "freed", "exit"}
InForward(p) == pc[p] \in {"fwd_setup", "fwd"}
LeftForward(p) == pc[p] \in {"fwd_done", "bwd", "x2b", "done", "freed", "exit"}
LeftBackward(p) == pc[p] \in {"x2b", "done", "freed", "exit"}

\* number of X_k messages received so far by p in a sweep
Delivered(sweep, p) == Sum([k \in Supers |-> ndeliv[<<sweep, k, p>>]], 0, nsupers - 1)
SumOverProcs(f) == Sum(f, 0, Pr * Pc - 1)

\* some message was received by a process other than its sender in the forward sweep
SomeForwardTraffic == \E p \in Procs : Delivered("L", p) > 0

-----------------------------------------------------------------------------
(* Properties *)

\* C1: when every process has left the forward loop, the X block of every supernode k on
\* its diagonal process is block k of inv(L) * B', B' the permuted right-hand side
C1_ForwardSolve ==
    ForwardEnded => \A r \in Rows : \A j \in RhsCols : XAt(r, j) = RefY[j][r]

\* forward sweep ended on a grid of several processes, with messages exchanged, a
\* non-trivial permutation and off-diagonal blocks in L
C1_Witness ==
    /\ ForwardEnded
    /\ Pr * Pc > 1
    /\ SomeForwardTraffic
    /\ perm_r # IdPerm
    /\ \E ik \in LowerBlk : Lsel[ik]

\* C2: a complete call overwrites B with the Y that satisfies L*U*Y = Pc*Pr*B; for the
\* bidiagonal L (-1 below the diagonal), U = I, n = 4 and B = 1 the result is 1, 2, 3, 4
C2_SolvesSystem ==
    AllDone =>
        /\ \A r \in Rows : \A j \in RhsCols :
              Sum([m \in Rows |->
                      Lfull(r, m) * Sum([c \in Rows |-> Ufull(m, c) * BAt(c, j)], 0, n - 1)],
                  0, n - 1) = Bperm(r, j)
        /\ (kind = "bidiag" /\ n = 4) => \A r \in Rows : \A j \in RhsCols : BAt(r, j) = r + 1

\* the call is complete for a factor with off-diagonal blocks in L and in U and a
\* non-trivial permutation, on several processes
C2_Witness ==
    /\ AllDone
    /\ Pr * Pc > 1
    /\ perm_c # IdPerm
    /\ \E ik \in LowerBlk : Lsel[ik]
    /\ \E ik \in UpperBlk : Usel[ik]

\* the call is complete for the bidiagonal example with n = 4 on a 2 x 2 grid
C2_WitnessBidiag == AllDone /\ kind = "bidiag" /\ n = 4 /\ Pr = 2 /\ Pc = 2

\* C3: the B returned is the sequential solution inv(U)*inv(L)*B', which depends on the
\* factor and the right-hand side only, whatever the grid; for A = I it is the input B
C3_GridIndependent ==
    AllDone =>
        /\ \A r \in Rows : \A j \in RhsCols : BAt(r, j) = RefX[j][r]
        /\ kind = "identity" => \A r \in Rows : \A j \in RhsCols : BAt(r, j) = B0[<<r, j>>]

\* the call is complete on a 2 x 2 grid for a factor whose blocks lie on several processes
C3_Witness ==
    /\ AllDone
    /\ Pr = 2 /\ Pc = 2
    /\ kind = "pattern"
    /\ \E ik \in LowerBlk : Lsel[ik]
    /\ \E p \in Procs : Delivered("U", p) > 0

\* the counters of the two sweeps stay in their ranges
CounterRanges ==
    \A p \in Procs :
        /\ nfrecvx[p] >= 0 /\ nfrecvmod[p] >= 0
        /\ nbrecvx[p] >= 0 /\ nbrecvmod[p] >= 0
        /\ \A lk \in LocalRows(p) :
              /\ fmod[p][lk] >= SolvedMark /\ frecv[p][lk] >= 0
              /\ bmod[p][lk] >= SolvedMark /\ brecv[p][lk] >= 0

\* C4: whatever the order in which the receives deliver the pending messages, X on the
\* diagonal processes after each sweep is the same function of the inputs, and no
\* counter leaves its range
C4_OrderIndependent ==
    /\ CounterRanges
    /\ ForwardEnded => \A k \in Supers :
          x[DiagProc(k)][LBi(k)].val =
              [idx \in 0 .. (SuperSize(k) * nrhs - 1) |->
                  RefY[idx \div SuperSize(k)][FstBlockC(k) + (idx % SuperSize(k))]]
    /\ BackwardEnded => \A k \in Supers :
          x[DiagProc(k)][LBi(k)].val =
              [idx \in 0 .. (SuperSize(k) * nrhs - 1) |->
                  RefX[idx \div SuperSize(k)][FstBlockC(k) + (idx % SuperSize(k))]]

\* a process in the forward loop has messages pending from two senders, of two tags
C4_Witness ==
    \E p \in Procs : \E q1 \in Procs : \E q2 \in Procs :
        /\ pc[p] = "fwd"
        /\ q1 # q2
        /\ chan[<<q1, p>>] # <<>> /\ chan[<<q2, p>>] # <<>>
        /\ Head(chan[<<q1, p>>]).tag # Head(chan[<<q2, p>>]).tag

\* a process waits in the forward receive with nothing to receive
BlockedInForward(p) ==
    /\ pc[p] = "fwd"
    /\ nfrecvx[p] # 0 \/ nfrecvmod[p] # 0
    /\ \A q \in Procs : chan[<<q, p>>] = <<>>

\* C5: in a call with legal arguments every process eventually leaves the forward loop
\* with nfrecvx = 0 and nfrecvmod = 0, and whenever a process waits in the receive some
\* step is possible
C5_ForwardTerminates ==
    /\ LegalCall => <>(\A p \in Procs : LeftForward(p) /\ nfrecvx[p] = 0 /\ nfrecvmod[p] = 0)
    /\ []((\E p \in Procs : BlockedInForward(p)) => ENABLED Next)

\* every process has left the forward loop after some process had to wait for a message
C5_Witness ==
    /\ \A p \in Procs : LeftForward(p)
    /\ \E p \in Procs : Llu.nfrecvx[p] > 0
    /\ \E p \in Procs : \E lk \in LocalRows(p) : HasLRtree(p, GlobalRow(p, lk))

\* C6: in a call with legal arguments every process eventually leaves the backward loop
\* with nbrecvx = 0 and nbrecvmod = 0, and then every block it owns on the diagonal is
\* solved: bmod = -1
C6_BackwardTerminates ==
    /\ LegalCall => <>(\A p \in Procs : LeftBackward(p))
    /\ [](\A p \in Procs : LeftBackward(p) =>
             /\ nbrecvx[p] = 0 /\ nbrecvmod[p] = 0
             /\ \A lk \in DiagRows(p) : bmod[p][lk] = 0 - 1)

\* every process has left the backward loop after X blocks and partial sums were exchanged
C6_Witness ==
    /\ \A p \in Procs : LeftBackward(p)
    /\ \E p \in Procs : Llu.nbrecvx[p] > 0
    /\ \E p \in Procs : \E lk \in DiagRows(p) : InitBrecv(p)[lk] > 0

\* C7: the diagonal solve of a block row runs at most once in a sweep and exactly once by
\* the end of the sweep, only with mod = 0 and recv = 0; fmod (bmod) is >= 0 before the
\* solve and -1 after it
C7_SolveOnce ==
    /\ \A e \in solveLog : e[3] = 0 /\ e[4] = 0
    /\ \A k \in Supers :
          /\ nsolve[<<"L", k>>] <= 1 /\ nsolve[<<"U", k>>] <= 1
          /\ nsolve[<<"L", k>>] = 0 => fmod[DiagProc(k)][LBi(k)] >= 0
          /\ nsolve[<<"L", k>>] = 1 => fmod[DiagProc(k)][LBi(k)] = 0 - 1
          /\ nsolve[<<"U", k>>] = 0 => bmod[DiagProc(k)][LBi(k)] >= 0
          /\ nsolve[<<"U", k>>] = 1 => bmod[DiagProc(k)][LBi(k)] = 0 - 1
          /\ LeftForward(DiagProc(k)) => nsolve[<<"L", k>>] = 1
          /\ LeftBackward(DiagProc(k)) => nsolve[<<"U", k>>] = 1

\* both sweeps ended; a block row was solved in the forward sweep after a remote partial
\* sum arrived, and one in the backward sweep likewise
C7_Witness ==
    /\ BackwardEnded
    /\ \E k \in Supers : HasLRtree(DiagProc(k), k) /\ nsolve[<<"L", k>>] = 1
    /\ \E k \in Supers : InitBrecv(DiagProc(k))[LBi(k)] > 0 /\ nsolve[<<"U", k>>] = 1

\* C8 as stated: at the end of the forward sweep every fmod[lk] and every frecv[lk] has
\* reached -1
C8_AllReachMinusOne ==
    ForwardEnded => \A p \in Procs : \A lk \in LocalRows(p) :
                        fmod[p][lk] = 0 - 1 /\ frecv[p][lk] = 0 - 1

\* the block rows process p takes part in during the forward sweep: those it owns on the
\* diagonal and those it holds a block of L of
TakesPart(p, lk) == lk \in DiagRows(p) \/ Llu.fmod[p][lk] > 0

\* C8 (amended): within a call of pdgstrs fmod[lk] and frecv[lk] never increase; frecv[lk]
\* counts down to 0 and never below; fmod[lk] goes to -1 once and stays there, for the
\* block rows the process takes part in, and stays 0 for the others
C8_CountersMonotone ==
    /\ [][\A p \in Procs : \A lk \in LocalRows(p) :
              /\ pc[p] # "exit" => fmod'[p][lk] <= fmod[p][lk]
              /\ pc[p] = "fwd" => frecv'[p][lk] <= frecv[p][lk]
              /\ (pc[p] # "exit" /\ fmod[p][lk] = 0 - 1) => fmod'[p][lk] = 0 - 1]_vars
    /\ [](\A p \in Procs : \A lk \in LocalRows(p) :
              /\ frecv[p][lk] >= 0
              /\ LeftForward(p) =>
                    /\ frecv[p][lk] = 0
                    /\ fmod[p][lk] = (IF TakesPart(p, lk) THEN 0 - 1 ELSE 0))

\* the forward sweep ended; a counter frecv came down from a positive value to 0, and a
\* block row some process takes no part in kept fmod = 0
C8_Witness ==
    /\ ForwardEnded
    /\ \E p \in Procs : \E lk \in LocalRows(p) : InitFrecv(p)[lk] > 0 /\ frecv[p][lk] = 0
    /\ \E p \in Procs : \E lk \in LocalRows(p) : ~TakesPart(p, lk) /\ fmod[p][lk] = 0

\* the number of edges of the broadcast trees of all supernodes
TotalBcEdges ==
    Sum([k \in Supers |-> SumOverProcs([p \in Procs |-> BcTree_getDestCount(p, k)])],
        0, nsupers - 1)

\* every edge of every broadcast tree has carried its X_k to the child
AllBroadcastsReceived ==
    \A k \in Supers : \A p \in Procs :
        (HasLBtree(p, k) /\ ~BcTree_IsRoot(p, k)) => ndeliv[<<"L", k, p>>] = 1

\* C9: the initial nfrecvx sum to the number of broadcast-tree edges; every X message
\* received lowers the receiver's nfrecvx by one; the sum is 0 exactly when every
\* broadcast message has been received
C9_MessageConservation ==
    /\ SumOverProcs(Llu.nfrecvx) = TotalBcEdges
    /\ \A p \in Procs : nfrecvx[p] + Delivered("L", p) = Llu.nfrecvx[p]
    /\ (SumOverProcs(nfrecvx) = 0) <=> AllBroadcastsReceived

\* all broadcasts were received, over at least two tree edges
C9_Witness ==
    /\ SumOverProcs(nfrecvx) = 0
    /\ TotalBcEdges >= 2
    /\ \E p \in Procs : Delivered("L", p) >= 1

\* the messages of tag k on their way to process c (forward sweep)
InFlightXk(k, c) ==
    SumOverProcs([q \in Procs |->
        Cardinality({j \in 1 .. Len(chan[<<q, c>>]) : chan[<<q, c>>][j].tag = k})])

\* C10: an X_k crosses a broadcast-tree edge at most once: for every process, the X_k
\* messages it has received plus those on their way to it are at most one
C10_AtMostOnce ==
    /\ \A k \in Supers : \A c \in Procs : ndeliv[<<"L", k, c>>] <= 1 /\ ndeliv[<<"U", k, c>>] <= 1
    /\ (\A p \in Procs : pc[p] \notin {"bwd", "x2b", "done", "freed", "exit"}) =>
           \A k \in Supers : \A c \in Procs : InFlightXk(k, c) + ndeliv[<<"L", k, c>>] <= 1

\* a process that is not the root received X_k, forwarded it, and its child received it
C10_Witness ==
    \E k \in Supers : \E p \in Procs : \E c \in Procs :
        /\ HasLBtree(p, k) /\ ~BcTree_IsRoot(p, k)
        /\ BcTree_getDestCount(p, k) > 0
        /\ HasLBtree(c, k) /\ ~BcTree_IsRoot(c, k) /\ c # p
        /\ TreeParent(Llu.LBtree_ptr[k], c) = p
        /\ ndeliv[<<"L", k, p>>] = 1
        /\ ndeliv[<<"L", k, c>>] = 1

\* the messages on their way, on every channel
InFlight == UNION {{chan[sd][j] : j \in 1 .. Len(chan[sd])} : sd \in Procs \X Procs}

\* C11 as stated: in both sweeps every X message carries a tag in [0, nsupers) and every
\* partial sum a tag in [nsupers, 2*nsupers)
C11_TagsInRanges ==
    \A m \in InFlight :
        /\ m.what = "X" => m.tag >= 0 /\ m.tag < nsupers
        /\ m.what = "LSUM" => m.tag >= nsupers /\ m.tag < 2 * nsupers

\* C11 (amended): in the forward sweep X_k carries the tag k, in [0, nsupers), and the
\* partial sum of block row k the tag nsupers + k, in [nsupers, 2*nsupers); in the backward
\* sweep every X_k carries the one tag Xk and every partial sum the one tag LSUM, the
\* block number travelling in the header; in both sweeps a received X message is handled
\* by the X branch, a received partial sum by the LSUM branch, and no message by neither
C11_TagsPartition ==
    /\ \A m \in InFlight :
          IF ~BarrierPassed
          THEN /\ m.what = "X" => m.tag = m.hdr /\ m.tag >= 0 /\ m.tag < nsupers
               /\ m.what = "LSUM" => m.tag = nsupers + m.hdr /\ m.tag >= nsupers /\ m.tag < 2 * nsupers
          ELSE /\ m.what = "X" => m.tag = Xk
               /\ m.what = "LSUM" => m.tag = LSUM
    /\ Xk # LSUM
    /\ \A e \in recvLog : e[2] = e[3]

\* both kinds of message were received in both sweeps
C11_Witness ==
    recvLog = {<<"L", "X", "X">>, <<"L", "LSUM", "LSUM">>, <<"U", "X", "X">>, <<"U", "LSUM", "LSUM">>}

-----------------------------------------------------------------------------
(* C12, C13: the test of the arguments *)

\* neither redistribution and neither sweep has run: nothing was exchanged, sent or solved
NothingRan ==
    /\ \A c \in {"B_to_X", "X_to_B"} : \A q \in Procs : \A d \in Procs : a2a[c][q][d] = <<>>
    /\ \A sd \in Procs \X Procs : chan[sd] = <<>>
    /\ \A sk \in Sweeps \X Supers : nsolve[sk] = 0
    /\ recvLog = {}
    /\ \A p \in Procs : \A lk \in LocalRows(p) : \A i \in DOMAIN x[p][lk].val : x[p][lk].val[i] = 0

\* C12: once pdgstrs has tested its arguments, info is 0 when n >= 0 and nrhs >= 0, -1
\* when n < 0 (whatever nrhs is) and -9 when n >= 0 and nrhs < 0; -info is the position of
\* the offending argument; with a non-zero info the call has returned and neither
\* redistribution and neither sweep has run or can run
C12_ArgumentValidation ==
    (\A p \in Procs : pc[p] \notin {"factored", "start"}) =>
        /\ (n_in >= 0 /\ nrhs >= 0) => info = 0
        /\ n_in < 0 => info = 0 - 1 /\ info = 0 - ArgPos.n
        /\ (n_in >= 0 /\ nrhs < 0) => info = 0 - 9 /\ info = 0 - ArgPos.nrhs
        /\ info # 0 => /\ \A p \in Procs : pc[p] = "error"
                       /\ NothingRan
                       /\ ~ENABLED Next

\* pdgstrs has returned -1 from a call in which n and nrhs are both negative
C12_Witness == (\A p \in Procs : pc[p] = "error") /\ info = 0 - 1 /\ n_in < 0 /\ nrhs < 0

\* C13: when pdgstrs has returned because of an illegal argument, no per-call array is
\* allocated, no collective or message operation was entered, and B and the factor are
\* as they were
C13_NoSideEffect ==
    (\A p \in Procs : pc[p] = "error") =>
        /\ info # 0
        /\ \A p \in Procs : alloc[p] = {}
        /\ coll = {}
        /\ NothingRan
        /\ B = CallerB

-----------------------------------------------------------------------------
(* C14: B is written by the last redistribution only *)

\* C14: while B differs from what the caller passed, the arguments were legal, every
\* process has ended both sweeps (all four counts are 0) and the X-to-B exchange has
\* taken place; before that, and after the return for an illegal argument, B is unchanged
C14_BWrittenLast ==
    /\ B # CallerB =>
          /\ LegalCall
          /\ \A p \in Procs : /\ pc[p] \in {"done", "freed", "exit"}
                               /\ nfrecvx[p] = 0 /\ nfrecvmod[p] = 0
                               /\ nbrecvx[p] = 0 /\ nbrecvmod[p] = 0
          /\ \E q \in Procs : \E d \in Procs : a2a["X_to_B"][q][d] # <<>>
    /\ (\E p \in Procs : pc[p] \notin {"done", "freed", "exit"}) => B = CallerB

\* the last redistribution has overwritten B on a grid of several processes
C14_Witness == (\A p \in Procs : pc[p] = "done") /\ B # CallerB /\ Pr * Pc > 1

-----------------------------------------------------------------------------
(* C15: pdReDistribute_B_to_X followed by pdReDistribute_X_to_B *)

\* the gather has run on the X that the scatter filled
RoundTripDone == \A p \in Procs : pc[p] = "done"

\* C15 as stated: the scatter followed by the gather on the unchanged X reproduces B,
\* for every perm_r and perm_c
C15_RoundTripIdentity == RoundTripDone => B = CallerB

\* C15: the scatter followed by the gather on the unchanged X leaves row l of the
\* caller's B in row perm_c[perm_r[l]] of B, for every right-hand side; B is reproduced
\* when perm_c[perm_r[l]] = l for every row l
C15_RoundTripPermuted ==
    RoundTripDone =>
        /\ \A l \in Rows : \A j \in RhsCols : BAt(perm_c[perm_r[l]], j) = B0[<<l, j>>]
        /\ (\A l \in Rows : perm_c[perm_r[l]] = l) => B = CallerB

\* the round trip under permutations that are not the identity but whose composition
\* is, on several processes: B is reproduced
C15_Witness ==
    /\ RoundTripDone
    /\ Pr * Pc > 1
    /\ perm_r # IdPerm /\ \A l \in Rows : perm_c[perm_r[l]] = l
    /\ B = CallerB

-----------------------------------------------------------------------------
(* C16, C17: the two redistributions *)

\* C16: after pdReDistribute_B_to_X, for every process p and local row i, with
\* l = fst_row + i, irow = perm_c[perm_r[l]] and k the supernode of irow, the values
\* B[i + j*ldb] are on the diagonal owner PNUM(k mod Pr, k mod Pc), in X block k at relative
\* row irow - FST(k), column j; the header of that block is k; only diagonal owners
\* receive rows
C16_ScatterPlacesRows ==
    (\A p \in Procs : pc[p] = "fwd_setup") =>
        /\ \A p \in Procs : \A i \in 0 .. (m_loc(p) - 1) :
              LET l == fst_row(p) + i
                  irow == perm_c[perm_r[l]]
                  k == supno[irow]
                  d == (k % Pr) * Pc + (k % Pc)
                  knsupc == xsup[k + 2] - xsup[k + 1]
              IN /\ x[d][k \div Pr].hdr = k
                 /\ \A j \in RhsCols :
                       x[d][k \div Pr].val[(irow - xsup[k + 1]) + j * knsupc] = B[p][i + j * ldb(p)]
        /\ \A q \in Procs : \A d \in Procs :
              a2a["B_to_X"][q][d] # <<>> => \E k \in Supers : d = (k % Pr) * Pc + (k % Pc)

\* B was scattered under permutations that are not the identity, and a row has moved
\* to another process
C16_Witness ==
    /\ \A p \in Procs : pc[p] = "fwd_setup"
    /\ \E l \in Rows : perm_c[perm_r[l]] # l
    /\ \E q \in Procs : \E d \in Procs : q # d /\ a2a["B_to_X"][q][d] # <<>>

\* C17: in pdReDistribute_X_to_B every row that is sent comes from the diagonal owner of
\* its supernode, carries the values of its X block and goes to row_to_proc of the row;
\* every process receives exactly m_loc rows, whose global indices are exactly
\* fst_row .. fst_row + m_loc - 1, and B holds each of them at offset (row - fst_row),
\* which lies in 0 .. m_loc - 1
C17_GatherWritesRows ==
    (\A p \in Procs : pc[p] \in {"done", "freed", "exit"}) =>
        /\ \A q \in Procs : \A d \in Procs : \A r \in 1 .. Len(a2a["X_to_B"][q][d]) :
              LET row == a2a["X_to_B"][q][d][r]
                  k == supno[row.irow]
                  knsupc == xsup[k + 2] - xsup[k + 1]
              IN /\ q = (k % Pr) * Pc + (k % Pc)
                 /\ d = row_to_proc(row.irow)
                 /\ \A j \in RhsCols :
                       row.val[j] = x[q][k \div Pr].val[(row.irow - xsup[k + 1]) + j * knsupc]
        /\ \A p \in Procs :
              LET rb == RecvBuf(a2a["X_to_B"], p, 0)
              IN /\ Len(rb) = m_loc(p)
                 /\ {rb[r].irow : r \in 1 .. Len(rb)} = fst_row(p) .. (fst_row(p) + m_loc(p) - 1)
                 /\ \A r \in 1 .. Len(rb) :
                       /\ rb[r].irow - fst_row(p) \in 0 .. (m_loc(p) - 1)
                       /\ \A j \in RhsCols :
                             B[p][(rb[r].irow - fst_row(p)) + j * ldb(p)] = rb[r].val[j]

\* X was gathered into B on a grid of several processes, and a row has moved to another
\* process
C17_Witness ==
    /\ \A p \in Procs : pc[p] = "done"
    /\ \E q \in Procs : \E d \in Procs : q # d /\ a2a["X_to_B"][q][d] # <<>>
    /\ \E p \in Procs : fst_row(p) > 0 /\ B[p] # CallerB[p]

-----------------------------------------------------------------------------
(* C18, C19: the per-call storage *)

\* C18: the buffer of every non-blocking send that was not waited for is still allocated
C18_SendsAwaited == \A p \in Procs : \A r \in pending[p] : r[2] \in alloc[p]

\* C19: when a successful call has returned, no per-call array is allocated
C19_AllReleased == (\A p \in Procs : pc[p] = "exit") => \A p \in Procs : alloc[p] = {}

-----------------------------------------------------------------------------
(* C20: the factor is read-only during the solve *)

-----------------------------------------------------------------------------
(* C21: the order of the phases *)

\* the phase a position belongs to: 0 before the scatter, 1 the forward sweep, 2 between
\* the sweeps, 3 the backward sweep, 4 backward sweep ended, 5 after the gather
PhaseOf(s) ==
    IF s \in {"factored", "start", "entered", "error"} THEN 0
    ELSE IF s \in {"fwd_setup", "fwd"} THEN 1
    ELSE IF s = "fwd_done" THEN 2
    ELSE IF s = "bwd" THEN 3
    ELSE IF s = "x2b" THEN 4
    ELSE 5

\* process p has done nothing of the forward sweep: nothing solved, received or sent
NoForwardWork(p) ==
    /\ \A k \in Supers : DiagProc(k) = p => nsolve[<<"L", k>>] = 0
    /\ \A k \in Supers : ndeliv[<<"L", k, p>>] = 0
    /\ \A q \in Procs : chan[<<p, q>>] = <<>>
    /\ nfrecvmod[p] = 0

\* process p has done nothing of the backward sweep
NoBackwardWork(p) ==
    /\ \A k \in Supers : DiagProc(k) = p => nsolve[<<"U", k>>] = 0
    /\ \A k \in Supers : ndeliv[<<"U", k, p>>] = 0
    /\ nbrecvmod[p] = 0
    /\ \A lk \in LocalRows(p) : bmod[p][lk] = 0 /\ brecv[p][lk] = 0
    /\ \A q \in Procs : \A j \in 1 .. Len(chan[<<p, q>>]) : chan[<<p, q>>][j].tag \notin {Xk, LSUM}

\* C21: in a call of pdgstrs the B-to-X redistribution is complete before any process
\* solves or receives in the forward sweep; a process sets up its backward counters only
\* after every process has ended its forward loop with nfrecvx = 0 and nfrecvmod = 0; the
\* X-to-B redistribution runs after every process has ended its backward loop; and no
\* process ever steps back to an earlier phase or does work of a later one
C21_PhaseOrder ==
    /\ [](\A p \in Procs :
             /\ PhaseOf(pc[p]) = 0 =>
                   /\ NoForwardWork(p)
                   /\ pc[p] \in {"factored", "start", "error"} =>
                         \A q \in Procs : \A d \in Procs : a2a["B_to_X"][q][d] = <<>>
             /\ PhaseOf(pc[p]) >= 1 => \E q \in Procs : \E d \in Procs : a2a["B_to_X"][q][d] # <<>>
             /\ PhaseOf(pc[p]) <= 2 => NoBackwardWork(p)
             /\ PhaseOf(pc[p]) >= 3 =>
                   \A q \in Procs : PhaseOf(pc[q]) >= 2 /\ nfrecvx[q] = 0 /\ nfrecvmod[q] = 0
             /\ PhaseOf(pc[p]) <= 4 => \A q \in Procs : \A d \in Procs : a2a["X_to_B"][q][d] = <<>>
             /\ PhaseOf(pc[p]) = 5 =>
                   \A q \in Procs : PhaseOf(pc[q]) = 5 /\ nbrecvx[q] = 0 /\ nbrecvmod[q] = 0)
    /\ [][\A p \in Procs :
             pc[p] # "exit" => /\ PhaseOf(pc'[p]) >= PhaseOf(pc[p])
                               /\ PhaseOf(pc'[p]) <= PhaseOf(pc[p]) + 1]_vars

\* a call on several processes has gone through all phases, with messages received in
\* both sweeps
C21_Witness ==
    /\ \A p \in Procs : pc[p] = "done"
    /\ Pr * Pc > 1
    /\ \E e \in recvLog : e[1] = "L"
    /\ \E e \in recvLog : e[1] = "U"

-----------------------------------------------------------------------------
(* C22: a zero pivot met by pdCompute_Diag_Inv                             *)

\* the inverse precomputation alone, over factors of which one pivot of U may be zero
InvInit == InitFrom({"bidiag", "identity"}, {<<IdPerm, IdPerm>>}, Rows \cup {NoPivot}, NrhsSet)
InvNext == pdCompute_Diag_Inv
InvSpec == InvInit /\ [][InvNext]_vars

\* the inverse of the upper triangle of the diagonal block of k, by a triangular solve
\* of the identity
InverseOfDiagU(k) ==
    dtrsm_LUNN(SuperSize(k), SuperSize(k), Llu.Lnzval_bc_ptr[DiagProc(k)][k],
               Len(PanelRows(Llu.Lrowind_bc_ptr[DiagProc(k)][k])),
               [idx \in 0 .. (SuperSize(k) * SuperSize(k) - 1) |->
                   IF idx % SuperSize(k) = idx \div SuperSize(k) THEN 1 ELSE 0])

\* the part of C22 the code satisfies: the blocks without a zero pivot are inverted
\* although another block had one
OthersInverted ==
    \A k \in Supers : INFO[k] = 0 =>
        /\ Llu.Linv_bc_ptr[DiagProc(k)][k] = Diag_Linv(k)
        /\ Llu.Uinv_bc_ptr[DiagProc(k)][k] = InverseOfDiagU(k)

C22_OthersInverted == (\A p \in Procs : pc[p] = "start") => OthersInverted

\* C22: when pdCompute_Diag_Inv has returned and a diagonal block had a zero pivot, the
\* caller's info is non-zero, and every other diagonal block has its two inverses
C22_SingularReported ==
    (\A p \in Procs : pc[p] = "start") =>
        /\ (\E k \in Supers : INFO[k] # 0) => info # 0
        /\ OthersInverted

\* a zero pivot was met and the routine has returned
C22_ZeroPivotMet ==
    /\ \A p \in Procs : pc[p] = "start"
    /\ zpiv # NoPivot
    /\ INFO[SupnoOf(zpiv)] = 1 + zpiv - FstBlockC(SupnoOf(zpiv))

-----------------------------------------------------------------------------
(* C23: the right-hand sides are solved independently of each other         *)

\* the numbers of right-hand sides of the first call
ColNrhs == {1, 2, 3}
\* the grids on which the caller solves one column again
ColGrids == {<<1, 1>>, <<1, 2>>, <<2, 1>>, <<2, 2>>}

\* column j of a local B
ColumnOf(Bloc, p, j) == Array([i \in 0 .. (m_loc(p) - 1) |-> Bloc[i + j * ldb(p)]])

\* the caller solves again with nrhs = 1 and column j of the B it had passed
CallColumn(j) ==
    /\ \A p \in Procs : pc[p] = "exit"
    /\ calls = 1
    /\ j \in 0 .. (nrhs - 1)
    /\ calls' = 2
    /\ nrhs' = 1
    /\ B0' = [lj \in Rows \X {0} |-> B0[<<lj[1], j>>]]
    /\ Bfirst' = [p \in Procs |-> ColumnOf(B[p], p, j)]
    /\ B' = [p \in Procs |-> ColumnOf(CallerB[p], p, j)]
    /\ pc' = [p \in Procs |-> "start"]
    /\ a2a' = [c \in {"B_to_X", "X_to_B"} |-> [q \in Procs |-> [d \in Procs |-> <<>>]]]
    /\ nsolve' = [sk \in Sweeps \X Supers |-> 0]
    /\ ndeliv' = [skd \in Sweeps \X Supers \X Procs |-> 0]
    /\ solveLog' = {}
    /\ recvLog' = {}
    /\ x' = [p \in Procs |->
               [lk \in LocalRows(p) |-> [hdr |-> 0, val |-> Zeros(SuperSize(GlobalRow(p, lk)))]]]
    /\ lsum' = x'
    /\ fmod' = Llu.fmod
    /\ frecv' = [p \in Procs |-> [lk \in LocalRows(p) |-> 0]]
    /\ nfrecvx' = Llu.nfrecvx
    /\ nfrecvmod' = [p \in Procs |-> 0]
    /\ nfrecvx_buf' = [p \in Procs |-> 0]
    /\ recvbuf0' = [p \in Procs |-> 0]
    /\ fwdSlots' = [p \in Procs |-> {}]
    /\ bmod' = [p \in Procs |-> [lk \in LocalRows(p) |-> 0]]
    /\ brecv' = [p \in Procs |-> [lk \in LocalRows(p) |-> 0]]
    /\ nbrecvx' = Llu.nbrecvx
    /\ nbrecvmod' = [p \in Procs |-> 0]
    /\ UNCHANGED <<grid, xsup, supno, kind, Lsel, Usel, scale, perm_r, perm_c, n_in, shape, zpiv,
                   INFO, Llu, resVars, chan>>

ColInit ==
    /\ InitFrom({"pattern"}, {<<IdPerm, IdPerm>>}, {NoPivot}, ColNrhs)
    /\ <<Pr, Pc>> \in ColGrids
    /\ xsup = <<0, 2, 3, 4>>

ColNext ==
    \/ pdCompute_Diag_Inv
    \/ pdgstrs_Enter
    \/ ReDistribute_B_to_X
    \/ \E p \in Procs : ForwardSetup(p)
    \/ \E p \in Procs : FwdRecv(p)
    \/ \E p \in Procs : FwdExit(p)
    \/ \E p \in Procs : BackwardSetup(p)
    \/ \E p \in Procs : BwdRecv(p)
    \/ \E p \in Procs : BwdExit(p)
    \/ ReDistribute_X_to_B
    \/ Deallocate
    \/ WaitSends
    \/ \E j \in 0 .. 2 : CallColumn(j)

ColSpec == ColInit /\ [][ColNext]_vars

\* C23: when the second call, with nrhs = 1 and column j of the first call's B, has
\* written its B, that B is column j of what the first call with nrhs = r returned
C23_ColumnsIndependent ==
    (calls = 2 /\ AllDone) => B = Bfirst

\* the first call had three right-hand sides, the second solved its last column on more
\* than one process, and the solution is not zero
C23_Witness ==
    /\ calls = 2
    /\ \A p \in Procs : pc[p] = "done"
    /\ Pr * Pc > 1
    /\ B0[<<0, 0>>] = Bentry(0, 2)
    /\ B = Bfirst
    /\ \E p \in Procs : \E i \in DOMAIN B[p] : B[p][i] # 0

-----------------------------------------------------------------------------
(* C24: lsum and the headers at the start of each sweep                     *)

\* ls is lsum of p as a sweep finds it: every payload zero for every right-hand side, every
\* header the global block number, and so the header of x on the diagonal blocks of p
SweepStart(p, ls) ==
    \A lk \in LocalRows(p) :
        /\ ls[lk].val = Zeros(SuperSize(GlobalRow(p, lk)) * nrhs)
        /\ ls[lk].hdr = GlobalRow(p, lk)
        /\ lk \in DiagRows(p) => x[p][lk].hdr = GlobalRow(p, lk)

HeadersOf(a) == [lk \in DOMAIN a |-> a[lk].hdr]

\* C24: the forward sweep of p starts from lsum with the headers set, the backward sweep
\* from lsum re-initialized; both find zero payloads and headers equal to the global block
\* numbers; the re-initialization changes no header, and no step of either sweep does
C24_LsumAtBoundaries ==
    /\ [](\A p \in Procs :
            /\ pc[p] = "fwd_setup" => SweepStart(p, LsumHeaders(p, lsum[p]))
            /\ pc[p] = "fwd_done" =>
                   /\ SweepStart(p, LsumZero(p, lsum[p]))
                   /\ HeadersOf(LsumZero(p, lsum[p])) = HeadersOf(lsum[p]))
    /\ [][\A p \in Procs :
            /\ pc[p] = "fwd_setup" => HeadersOf(x'[p]) = HeadersOf(x[p])
            /\ pc[p] \in {"fwd", "fwd_done", "bwd"} =>
                   /\ HeadersOf(lsum'[p]) = HeadersOf(lsum[p])
                   /\ HeadersOf(x'[p]) = HeadersOf(x[p])]_vars

\* a process that is not alone ends the forward sweep with a non-zero partial sum in a
\* block whose global number is not its local one
C24_Witness ==
    \E p \in Procs : \E lk \in LocalRows(p) :
        /\ pc[p] = "fwd_done"
        /\ BarrierPassed
        /\ GlobalRow(p, lk) # lk
        /\ lsum[p][lk].hdr = GlobalRow(p, lk)
        /\ \E i \in DOMAIN lsum[p][lk].val : lsum[p][lk].val[i] # 0

-----------------------------------------------------------------------------
(* C25: the leaves of the forward sweep                                     *)

RangeOf(s) == {s[i] : i \in DOMAIN s}

\* the diagonal blocks of p whose fmod is zero when the sweep starts
FmodZeroBlocks(p) == {GlobalRow(p, lk) : lk \in {l \in DiagRows(p) : fmod[p][l] = 0}}
\* those of them whose block row has no reduction tree, so that nothing is to be received
TreelessFmodZeroBlocks(p) == {k \in FmodZeroBlocks(p) : ~HasLRtree(p, k)}

\* the step of p from the set-up of the forward sweep to its receive loop
SeedingStep(p) == pc[p] = "fwd_setup" /\ pc'[p] = "fwd"

\* the step solved block k as a leaf: it found both counters zero, marked fmod, sent X_k
\* to every child of p in LBtree[k] and updated every local block row of the panel
SeededAsLeaf(p, k) ==
    /\ fmod'[p][LBi(k)] = SolvedMark
    /\ nsolve'[<<"L", k>>] = nsolve[<<"L", k>>] + 1
    /\ <<"L", k, 0, 0>> \in solveLog'
    /\ \A d \in RangeOf(TreeChildren(Llu.LBtree_ptr[k], p)) :
           \E i \in 1 .. Len(chan'[<<p, d>>]) :
               /\ chan'[<<p, d>>][i].tag = k
               /\ chan'[<<p, d>>][i].val = x'[p][LBi(k)].val
    /\ \A i \in RangeOf(LOffDiag(p, k)) : fmod'[p][LBi(i)] < fmod[p][LBi(i)]

\* the seeding of p took exactly the blocks of S as leaves
SeedsExactly(p, S) ==
    /\ RangeOf(leafsups(p, fmod[p])) = S
    /\ \A k \in S : SeededAsLeaf(p, k)
    /\ \A k \in RangeOf(leafsups(p, fmod[p])) : fmod[p][LBi(k)] = 0

\* C25 as stated: every diagonal block with fmod = 0 at the start of the sweep is a leaf
\* and is solved, marked, sent and applied before the first receive of the process
C25_FmodZeroSeeded ==
    [][\A p \in Procs : SeedingStep(p) => SeedsExactly(p, FmodZeroBlocks(p))]_vars

\* C25: every diagonal block with fmod = 0 at the start of the sweep whose block row has
\* no reduction tree is a leaf; each leaf is solved, its fmod set to -1, X_k sent along
\* LBtree[k] and the local updates applied in the set-up step, before the first receive;
\* no block with fmod > 0 is taken as a leaf
C25_TreelessSeeded ==
    [][\A p \in Procs : SeedingStep(p) => SeedsExactly(p, TreelessFmodZeroBlocks(p))]_vars

\* p has seeded leaf k, received nothing yet, and holds the solved mark of k
LeafSeeded(p, k) ==
    /\ pc[p] = "fwd"
    /\ nfrecvx[p] = Llu.nfrecvx[p]
    /\ DiagProc(k) = p
    /\ ~HasLRtree(p, k) /\ Llu.fmod[p][LBi(k)] = 0
    /\ fmod[p][LBi(k)] = SolvedMark

\* a process has seeded a leaf with children in its broadcast tree and has left alone a
\* diagonal block with fmod = 0 that waits for partial sums; a leaf with local block rows
\* to update was seeded too
C25_Witness ==
    /\ \E p \in Procs : \E k, k2 \in Supers :
           /\ LeafSeeded(p, k)
           /\ TreeChildren(Llu.LBtree_ptr[k], p) # <<>>
           /\ DiagProc(k2) = p
           /\ HasLRtree(p, k2) /\ Llu.fmod[p][LBi(k2)] = 0
           /\ fmod[p][LBi(k2)] = 0 /\ frecv[p][LBi(k2)] > 0
    /\ \E p \in Procs : \E k \in Supers : LeafSeeded(p, k) /\ LOffDiag(p, k) # <<>>

-----------------------------------------------------------------------------
(* C26: the handler of an X_k message in the forward sweep                  *)

\* the step in which p, in the forward sweep, receives the message at the head of the
\* channel from q
FwdReceives(p, q) ==
    /\ pc[p] = "fwd"
    /\ chan[<<q, p>>] # <<>>
    /\ chan'[<<q, p>>] = Tail(chan[<<q, p>>])

\* the messages the step appended to the channel from p to d
Appended(p, d) == SubSeq(chan'[<<p, d>>], Len(chan[<<p, d>>]) + 1, Len(chan'[<<p, d>>]))

\* the step handled the X_k message m on p
XkHandled(p, m) ==
    /\ m.tag = m.hdr
    /\ nfrecvx'[p] = nfrecvx[p] - 1
    /\ nfrecvmod'[p] = nfrecvmod[p]
    /\ \A d \in RangeOf(TreeChildren(Llu.LBtree_ptr[m.tag], p)) :
           Appended(p, d) # <<>> /\ Head(Appended(p, d)) = m
    /\ TreeChildren(Llu.LBtree_ptr[m.tag], p) = <<>> =>
           \A d \in Procs : \A i \in DOMAIN Appended(p, d) : Appended(p, d)[i].tag # m.tag
    /\ Lrowind_bc_ptr(p, m.hdr) = <<>> =>
           lsum'[p] = lsum[p] /\ fmod'[p] = fmod[p] /\ x'[p] = x[p]
    /\ \A i \in RangeOf(Lrowind_bc_ptr(p, m.hdr)) : fmod'[p][LBi(i)] < fmod[p][LBi(i)]

\* C26: a process that receives X_k in the forward sweep (tag < nsupers) decrements
\* nfrecvx by one, sends the message unchanged to each of its children in LBtree[k] ahead of
\* anything the local updates send, updates the block rows of panel k exactly when it
\* holds the panel, and the tag and the header word name the same supernode
C26_XkHandler ==
    [][\A p, q \in Procs :
          (FwdReceives(p, q) /\ Head(chan[<<q, p>>]).tag < nsupers)
              => XkHandled(p, Head(chan[<<q, p>>]))]_vars

\* X_k went from a process that is not its owner on to a child, and both have received it
C26_Witness ==
    \E p, d \in Procs : \E k \in Supers :
        /\ p # DiagProc(k)
        /\ d \in RangeOf(TreeChildren(Llu.LBtree_ptr[k], p))
        /\ ndeliv[<<"L", k, p>>] = 1
        /\ ndeliv[<<"L", k, d>>] = 1
        /\ Lrowind_bc_ptr(p, k) # <<>>

-----------------------------------------------------------------------------
(* C27: the handler of a partial sum on the root of LRtree[k]               *)

\* the message is a partial sum of the forward sweep
IsFwdLsum(m) == m.tag >= nsupers /\ m.tag < 2 * nsupers

\* the X_k message the owner sends once the step has solved block k
SolvedXk(p, k) == [tag |-> k, hdr |-> k, val |-> x'[p][LBi(k)].val, what |-> "X"]

\* the step handled the partial sum m of block row k = m.hdr on p, the root of LRtree[k]
LsumHandledAtRoot(p, m) ==
    LET k == m.hdr
        lk == LBi(m.hdr)
    IN /\ nfrecvmod'[p] = nfrecvmod[p] - 1
       /\ nfrecvx'[p] = nfrecvx[p]
       /\ frecv'[p][lk] = frecv[p][lk] - 1
       /\ lsum'[p][lk] = lsum[p][lk]
       /\ IF frecv[p][lk] = 1 /\ fmod[p][lk] = 0
          THEN /\ fmod'[p][lk] = SolvedMark
               /\ nsolve'[<<"L", k>>] = nsolve[<<"L", k>>] + 1
               /\ <<"L", k, 0, 0>> \in solveLog'
               /\ x'[p][lk].val = DiagSolveL(p, k, VecAdd(x[p][lk].val, m.val))
               /\ \A d \in RangeOf(TreeChildren(Llu.LBtree_ptr[k], p)) :
                      Appended(p, d) # <<>> /\ Head(Appended(p, d)) = SolvedXk(p, k)
               /\ \A i \in RangeOf(LOffDiag(p, k)) : fmod'[p][LBi(i)] < fmod[p][LBi(i)]
          ELSE /\ x'[p][lk].val = VecAdd(x[p][lk].val, m.val)
               /\ fmod'[p] = fmod[p]
               /\ nsolve' = nsolve
               /\ \A d \in Procs : Appended(p, d) = <<>>

\* C27: the root of LRtree[k] that receives a partial sum of block row k adds it to X[k]
\* and decrements nfrecvmod and frecv[lk] by one; when that leaves frecv[lk] = 0 with
\* fmod[lk] = 0 the same step sets fmod[lk] to -1, solves X_k, sends it to the children in
\* LBtree[k] ahead of anything the local updates send, and updates the local block rows of
\* the panel; otherwise the step solves and sends nothing
C27_LsumAtRoot ==
    [][\A p, q \in Procs :
          (/\ FwdReceives(p, q)
           /\ IsFwdLsum(Head(chan[<<q, p>>]))
           /\ RdTree_IsRoot(p, Head(chan[<<q, p>>]).hdr))
              => LsumHandledAtRoot(p, Head(chan[<<q, p>>]))]_vars

\* a root without local updates of its own was solved by the arrival of its last partial
\* sum, with another process waiting for its X_k
C27_Witness ==
    \E p \in Procs : \E k \in Supers :
        /\ pc[p] = "fwd"
        /\ HasLRtree(p, k) /\ RdTree_IsRoot(p, k)
        /\ <<"L", "LSUM", "LSUM">> \in recvLog
        /\ Llu.fmod[p][LBi(k)] = 0
        /\ fmod[p][LBi(k)] = SolvedMark
        /\ frecv[p][LBi(k)] = 0
        /\ TreeChildren(Llu.LBtree_ptr[k], p) # <<>>
        /\ \E i \in DOMAIN x[p][LBi(k)].val : x[p][LBi(k)].val[i] # 0

-----------------------------------------------------------------------------
(* C28: the handler of a partial sum on the other members of LRtree[k]      *)

\* the partial sums of block row k the step appended to the channel from p to its parent
LsumSent(p, k) ==
    SelectSeq(Appended(p, TreeParent(Llu.LRtree_ptr[k], p)),
              LAMBDA s : s.what = "LSUM" /\ s.hdr = k)

\* the step added the partial sum m of block row k = m.hdr to lsum[k] on p, not to x
LsumAccumulated(p, m) ==
    /\ lsum'[p][LBi(m.hdr)].val = VecAdd(lsum[p][LBi(m.hdr)].val, m.val)
    /\ x'[p] = x[p]
    /\ frecv'[p][LBi(m.hdr)] = frecv[p][LBi(m.hdr)] - 1
    /\ nfrecvmod'[p] = nfrecvmod[p] - 1

\* the step sent the sum of block row k to the parent of p and marked the block row
LsumForwarded(p, k) ==
    /\ LsumSent(p, k) = <<[tag |-> nsupers + k, hdr |-> k, val |-> lsum'[p][LBi(k)].val,
                          what |-> "LSUM"]>>
    /\ fmod'[p][LBi(k)] = SolvedMark

\* the step sent nothing of block row k and left its counter of local updates
LsumKept(p, k) == LsumSent(p, k) = <<>> /\ fmod'[p][LBi(k)] = fmod[p][LBi(k)]

\* in the forward sweep a member of LRtree[k] that is not the root sends the sum of block
\* row k at most once: only while the block row is unmarked, and the step marks it for
\* the rest of the sweep
SentAtMostOnce ==
    \A p \in Procs : \A k \in Supers :
        (/\ pc[p] \in {"fwd_setup", "fwd"}
         /\ HasLRtree(p, k) /\ ~RdTree_IsRoot(p, k)) =>
            /\ Len(LsumSent(p, k)) <= 1
            /\ Len(LsumSent(p, k)) = 1 => fmod[p][LBi(k)] >= 0 /\ fmod'[p][LBi(k)] = SolvedMark
            /\ fmod[p][LBi(k)] = SolvedMark => fmod'[p][LBi(k)] = SolvedMark

\* C28 as stated: the sum is sent on and the block row marked once frecv[lk] reaches zero
C28_ForwardOnFrecvZero ==
    [][/\ \A p, q \in Procs :
             (/\ FwdReceives(p, q)
              /\ IsFwdLsum(Head(chan[<<q, p>>]))
              /\ ~RdTree_IsRoot(p, Head(chan[<<q, p>>]).hdr))
                 => /\ LsumAccumulated(p, Head(chan[<<q, p>>]))
                    /\ IF frecv'[p][LBi(Head(chan[<<q, p>>]).hdr)] = 0
                       THEN LsumForwarded(p, Head(chan[<<q, p>>]).hdr)
                       ELSE LsumKept(p, Head(chan[<<q, p>>]).hdr)
       /\ SentAtMostOnce]_vars

\* C28: a member of LRtree[k] that is not the root adds a received partial sum to lsum[k],
\* not to x; once frecv[lk] reaches zero with fmod[lk] = 0, no local update outstanding,
\* the handler sends the sum to the parent in LRtree[k] and marks the block row with
\* fmod[lk] = -1; the sum of a block row is sent to the parent at most once per sweep
C28_ForwardWhenReady ==
    [][/\ \A p, q \in Procs :
             (/\ FwdReceives(p, q)
              /\ IsFwdLsum(Head(chan[<<q, p>>]))
              /\ ~RdTree_IsRoot(p, Head(chan[<<q, p>>]).hdr))
                 => /\ LsumAccumulated(p, Head(chan[<<q, p>>]))
                    /\ IF /\ frecv'[p][LBi(Head(chan[<<q, p>>]).hdr)] = 0
                          /\ fmod[p][LBi(Head(chan[<<q, p>>]).hdr)] = 0
                       THEN LsumForwarded(p, Head(chan[<<q, p>>]).hdr)
                       ELSE LsumKept(p, Head(chan[<<q, p>>]).hdr)
       /\ SentAtMostOnce]_vars

\* an inner member of a reduction tree has received the sum of its child and sent its own
\* sum, which is not zero, on towards the root
C28_Witness ==
    \E p \in Procs : \E k \in Supers :
        /\ pc[p] = "fwd"
        /\ HasLRtree(p, k) /\ ~RdTree_IsRoot(p, k)
        /\ TreeChildren(Llu.LRtree_ptr[k], p) # <<>>
        /\ frecv[p][LBi(k)] = 0
        /\ fmod[p][LBi(k)] = SolvedMark
        /\ \E i \in DOMAIN lsum[p][LBi(k)].val : lsum[p][LBi(k)].val[i] # 0

-----------------------------------------------------------------------------
(* C29: the roots of the backward sweep                                     *)

\* the step of p from the set-up of the backward sweep to its receive loop
RootStep(p) == pc[p] = "fwd_done" /\ pc'[p] = "bwd"

\* the diagonal blocks of p whose bmod is zero initially
BmodZeroBlocks(p) == {GlobalRow(p, lk) : lk \in {l \in DiagRows(p) : Llu.bmod[p][l] = 0}}
\* those of them for which no partial sum is to be received: brecv is zero as well
RootBlocks(p) == {k \in BmodZeroBlocks(p) : brecv'[p][LBi(k)] = 0}

\* the positions of the X_k message of block k among those the step appended from p to d
SentAt(p, d, k) == {i \in DOMAIN Appended(p, d) : Appended(p, d)[i].hdr = k}

\* the root loop of p solved exactly the blocks of S, once each, block by block downwards,
\* and nroot was their number
RootsSolved(p, S) ==
    /\ \A k \in S : /\ bmod'[p][LBi(k)] = SolvedMark
                    /\ nsolve'[<<"U", k>>] = nsolve[<<"U", k>>] + 1
                    /\ nsolve'[<<"U", k>>] = 1
                    /\ <<"U", k, 0, 0>> \in solveLog'
    /\ \A k \in BmodZeroBlocks(p) \ S : /\ nsolve'[<<"U", k>>] = nsolve[<<"U", k>>]
                                         /\ bmod'[p][LBi(k)] = 0
    /\ \A k1, k2 \in S : \A d \in Procs :
           k1 > k2 => \A i1 \in SentAt(p, d, k1) : \A i2 \in SentAt(p, d, k2) : i1 < i2
    /\ CountRoots(p, brecv'[p], Llu.bmod[p]) = Cardinality(S)

\* C29 as stated: the root loop solves exactly the diagonal blocks whose bmod is zero
\* initially
C29_BmodZeroAreRoots ==
    [][\A p \in Procs : RootStep(p) => RootsSolved(p, BmodZeroBlocks(p))]_vars

\* C29: the root loop solves exactly the diagonal blocks whose bmod and brecv are both
\* zero initially, each once, in decreasing block order, and nroot is their number, so
\* that the loop stops when the last of them is solved
C29_ReadyAreRoots ==
    [][\A p \in Procs : RootStep(p) => RootsSolved(p, RootBlocks(p))]_vars

\* a process has solved two roots in its root loop and sent both to the same process, and
\* another block with bmod = 0 waits for a partial sum
C29_Witness ==
    /\ \E p, d \in Procs : \E k1, k2 \in Supers :
           /\ pc[p] = "bwd"
           /\ k1 > k2
           /\ DiagProc(k1) = p /\ DiagProc(k2) = p
           /\ Llu.bmod[p][LBi(k1)] = 0 /\ Llu.bmod[p][LBi(k2)] = 0
           /\ <<"U", k1, 0, 0>> \in solveLog /\ <<"U", k2, 0, 0>> \in solveLog
           /\ Len(chan[<<p, d>>]) >= 2
           /\ chan[<<p, d>>][1].hdr = k1 /\ chan[<<p, d>>][2].hdr = k2
    /\ \E p \in Procs : \E k \in Supers :
           /\ pc[p] = "bwd"
           /\ DiagProc(k) = p
           /\ Llu.bmod[p][LBi(k)] = 0 /\ bmod[p][LBi(k)] = 0 /\ brecv[p][LBi(k)] > 0

-----------------------------------------------------------------------------
(* C30: brecv and nbrecvmod after the reduction over the process row        *)

\* the processes of the row of p, other than the owner of block row lk, whose bmod[lk] is
\* not zero
OffDiagContributors(p, lk) ==
    {q \in Procs : /\ MYROW(q) = MYROW(p)
                   /\ MYCOL(q) # PCOL(GlobalRow(p, lk))
                   /\ Llu.bmod[q][lk] # 0}

\* the sum of brecv over the block rows p owns as diagonal process
SumBrecv(p, br) == Sum([lk \in 0 .. (nlb - 1) |-> IF lk \in DiagRows(p) THEN br[lk] ELSE 0],
                       0, nlb - 1)

\* C30: the set-up of the backward sweep leaves in brecv[lk], on the diagonal process of
\* every block row, the number of other processes of its row whose bmod[lk] is not zero;
\* brecv[lk] is in 0 .. Pc-1, and nbrecvmod is the sum of brecv over the block rows the
\* process owns, which the receive loop maintains
C30_BrecvCounts ==
    /\ [][\A p \in Procs : RootStep(p) =>
             /\ \A lk \in DiagRows(p) :
                    brecv'[p][lk] = Cardinality(OffDiagContributors(p, lk))
             /\ nbrecvmod'[p] = SumBrecv(p, brecv'[p])]_vars
    /\ [](\A p \in Procs : pc[p] = "bwd" =>
             /\ \A lk \in DiagRows(p) : brecv[p][lk] >= 0 /\ brecv[p][lk] < Pc
             /\ nbrecvmod[p] = SumBrecv(p, brecv[p]))

\* a diagonal process waits for the sums of every other process of its row for one block
\* row and for more sums for another
C30_Witness ==
    \E p \in Procs : \E lk \in DiagRows(p) :
        /\ pc[p] = "bwd"
        /\ Pc >= 2
        /\ brecv[p][lk] = Pc - 1
        /\ brecv[p][lk] = Cardinality(OffDiagContributors(p, lk))
        /\ nbrecvmod[p] > brecv[p][lk]

-----------------------------------------------------------------------------
(* C31: the partial sums of the backward sweep                              *)

\* the step in which p, in the backward sweep, receives the message at the head of the
\* channel from q
BwdReceives(p, q) ==
    /\ pc[p] = "bwd"
    /\ chan[<<q, p>>] # <<>>
    /\ chan'[<<q, p>>] = Tail(chan[<<q, p>>])

\* the partial sums of block row k in flight to p
LsumInFlight(p, k) ==
    {<<q, j>> \in Procs \X (1 .. nsupers) :
        /\ j <= Len(chan[<<q, p>>])
        /\ chan[<<q, p>>][j].tag = LSUM
        /\ chan[<<q, p>>][j].hdr = k}

\* the processes that have a partial sum of block row lk to send to p and have not sent it
LsumToCome(p, lk) ==
    {q \in OffDiagContributors(p, lk) : pc[q] = "fwd_done" \/ (pc[q] = "bwd" /\ bmod[q][lk] > 0)}

\* the step handled the partial sum m of the backward sweep on p
BwdLsumHandled(p, m) ==
    LET k == m.hdr
        lk == LBi(m.hdr)
    IN /\ p = DiagProc(k)
       /\ nbrecvmod'[p] = nbrecvmod[p] - 1
       /\ nbrecvx'[p] = nbrecvx[p]
       /\ brecv'[p] = [brecv[p] EXCEPT ![lk] = @ - 1]
       /\ lsum'[p][lk] = lsum[p][lk]
       /\ x'[p][lk].val = IF brecv[p][lk] = 1 /\ bmod[p][lk] = 0
                          THEN DiagSolveU(p, k, VecAdd(x[p][lk].val, m.val))
                          ELSE VecAdd(x[p][lk].val, m.val)

\* C31: in the backward sweep a partial sum of block row k travels to the diagonal process
\* of k only and is received by it only; the receipt adds it to X[k] and decrements
\* brecv[lk] by one, nothing else changes brecv[lk] during the sweep, every contributor
\* sends its sum once, and brecv[lk] counts the sums in flight and still to come, so that
\* the owner has received as many sums as brecv[lk] held initially when brecv[lk] is 0,
\* which it is when the owner leaves the loop
C31_BwdLsumToOwner ==
    /\ [](\A p, q \in Procs : \A j \in DOMAIN chan[<<q, p>>] :
             chan[<<q, p>>][j].tag = LSUM =>
                 /\ p = DiagProc(chan[<<q, p>>][j].hdr)
                 /\ q \in OffDiagContributors(p, LBi(chan[<<q, p>>][j].hdr)))
    /\ [](\A p \in Procs : \A lk \in DiagRows(p) :
             /\ pc[p] = "bwd" =>
                    brecv[p][lk] = Cardinality(LsumInFlight(p, GlobalRow(p, lk)))
                                   + Cardinality(LsumToCome(p, lk))
             /\ LeftBackward(p) =>
                    /\ brecv[p][lk] = 0
                    /\ LsumInFlight(p, GlobalRow(p, lk)) = {}
                    /\ \A q \in OffDiagContributors(p, lk) : pc[q] # "fwd_done" /\ bmod[q][lk] = 0)
    /\ [][\A p, q \in Procs :
             /\ (BwdReceives(p, q) /\ Head(chan[<<q, p>>]).tag = LSUM)
                    => BwdLsumHandled(p, Head(chan[<<q, p>>]))
             /\ (pc[p] = "bwd" /\ pc'[p] = "bwd" /\ brecv'[p] # brecv[p])
                    => \E r \in Procs : BwdReceives(p, r) /\ Head(chan[<<r, p>>]).tag = LSUM
             /\ \A k \in Supers :
                    Len(SelectSeq(Appended(q, p), LAMBDA m : m.tag = LSUM /\ m.hdr = k)) <= 1]_vars

\* the owner of a block row has received the sums of two other processes of its row and
\* solved the block with them
C31_Witness ==
    \E p \in Procs : \E lk \in DiagRows(p) :
        /\ LeftBackward(p)
        /\ Cardinality(OffDiagContributors(p, lk)) = 2
        /\ <<"U", "LSUM", "LSUM">> \in recvLog
        /\ brecv[p][lk] = 0
        /\ bmod[p][lk] = SolvedMark
        /\ \E i \in DOMAIN x[p][lk].val : x[p][lk].val[i] # RefY[i \div SuperSize(GlobalRow(p, lk))][FstBlockC(GlobalRow(p, lk)) + (i % SuperSize(GlobalRow(p, lk)))]

-----------------------------------------------------------------------------
(* C32: the two paths of the diagonal solve                                 *)

\* supernode partitions with a diagonal block of three columns, and with two of two
FlagXsups == {<<0, 3, 4>>, <<0, 2, 4>>}
FlagGrids == {<<1, 1>>, <<1, 2>>, <<2, 1>>, <<2, 2>>}

FlagInit ==
    /\ InitWith(FlagXsups, {"pattern"}, {<<IdPerm, IdPerm>>}, {NoPivot}, NrhsSet)
    /\ <<Pr, Pc>> \in FlagGrids

\* the caller does not call pdCompute_Diag_Inv before the solve: Llu->inv stays as the
\* distribution left it, and the diagonal solves are the in-place triangular solves
SkipDiagInv ==
    /\ \A p \in Procs : pc[p] = "factored"
    /\ pc' = [p \in Procs |-> "start"]
    /\ UNCHANGED <<cfgVars, B, x, lsum, fwdVars, bwdVars, resVars, chan, a2a, obsVars>>

FlagNext ==
    \/ pdCompute_Diag_Inv
    \/ SkipDiagInv
    \/ pdgstrs_Enter
    \/ ReDistribute_B_to_X
    \/ \E p \in Procs : ForwardSetup(p)
    \/ \E p \in Procs : FwdRecv(p)
    \/ \E p \in Procs : FwdExit(p)
    \/ \E p \in Procs : BackwardSetup(p)
    \/ \E p \in Procs : BwdRecv(p)
    \/ \E p \in Procs : BwdExit(p)
    \/ ReDistribute_X_to_B
    \/ Deallocate
    \/ WaitSends

\* one call of pdgstrs with either setting of the flag
FlagSpec == FlagInit /\ [][FlagNext]_vars

\* the inverses pdCompute_Diag_Inv stores for block k
StoredLinv(k) == IF Llu.inv = 1 THEN Linv_bc_ptr(DiagProc(k), k) ELSE Diag_Linv(k)
StoredUinv(k) == IF Llu.inv = 1 THEN Uinv_bc_ptr(DiagProc(k), k) ELSE Diag_Uinv(k)

\* block k of a reference solution, laid out as an X block
RefBlock(ref, k) ==
    [idx \in 0 .. (SuperSize(k) * nrhs - 1) |->
        ref[idx \div SuperSize(k)][FstBlockC(k) + (idx % SuperSize(k))]]

\* the two paths give the same result on the X block xv of supernode k
PathsAgreeOn(k, xv) ==
    /\ dgemm(SuperSize(k), nrhs, SuperSize(k), StoredLinv(k), SuperSize(k), xv, SuperSize(k))
         = dtrsm_LLNU(SuperSize(k), nrhs, Lnzval_bc_ptr(DiagProc(k), k), nsuprOf(DiagProc(k), k), xv)
    /\ dgemm(SuperSize(k), nrhs, SuperSize(k), StoredUinv(k), SuperSize(k), xv, SuperSize(k))
         = dtrsm_LUNN(SuperSize(k), nrhs, Lnzval_bc_ptr(DiagProc(k), k), nsuprOf(DiagProc(k), k), xv)

\* C32: on every X block that occurs, the product with the stored inverse of the diagonal
\* block equals the in-place triangular solve (unit lower for L, non-unit upper for U), and
\* with either setting of the flag every X_k is block k of inv(L)*B' once solved forward
\* and of inv(U)*inv(L)*B' once solved backward, so that the B returned is the same
C32_PathsEquivalent ==
    /\ \A k \in Supers : PathsAgreeOn(k, x[DiagProc(k)][LBi(k)].val)
    /\ \A k \in Supers :
          /\ (nsolve[<<"L", k>>] = 1 /\ pc[DiagProc(k)] \in {"fwd", "fwd_done"})
                 => x[DiagProc(k)][LBi(k)].val = RefBlock(RefY, k)
          /\ nsolve[<<"U", k>>] = 1 => x[DiagProc(k)][LBi(k)].val = RefBlock(RefX, k)
    /\ AllDone => \A r \in Rows : \A j \in RhsCols : BAt(r, j) = RefX[j][r]

\* a call that used the triangular solves is complete, for a factor with a diagonal block
\* of three columns whose inverse is not the block itself, on several processes
C32_Witness ==
    /\ AllDone
    /\ Llu.inv = 0
    /\ Pr * Pc > 1
    /\ xsup = <<0, 3, 4>>
    /\ \E ik \in LowerBlk : Lsel[ik]
    /\ Diag_Linv(0) # LinvInit(3, Lnzval_bc_ptr(DiagProc(0), 0), nsuprOf(DiagProc(0), 0),
                               Dist_InvBuffer(DiagProc(0), 0))
    /\ \E r \in Rows : \E j \in RhsCols : BAt(r, j) # B0[<<r, j>>]

\* a call that used the stored inverses is complete for the same kind of factor
C32_WitnessInv == AllDone /\ Llu.inv = 1 /\ Pr * Pc > 1 /\ xsup = <<0, 3, 4>>

-----------------------------------------------------------------------------
(* C33: what pdCompute_Diag_Inv writes                                      *)

\* the unit lower triangle of the diagonal block of supernode k as a dense matrix: unit
\* diagonal, the entries of the factor below it, zero above it
UnitLowerOf(k) ==
    Array([idx \in 0 .. (SuperSize(k) * SuperSize(k) - 1) |->
              LET i == idx % SuperSize(k)
                  j == idx \div SuperSize(k)
              IN IF i = j THEN 1
                 ELSE IF i > j THEN Lval_at(FstBlockC(k) + i, FstBlockC(k) + j) ELSE 0])

\* the upper triangle of the diagonal block of supernode k, diagonal included
UpperOf(k) ==
    Array([idx \in 0 .. (SuperSize(k) * SuperSize(k) - 1) |->
              LET i == idx % SuperSize(k)
                  j == idx \div SuperSize(k)
              IN IF i <= j THEN Uval_at(FstBlockC(k) + i, FstBlockC(k) + j) ELSE 0])

Identity(m) == Array([idx \in 0 .. (m * m - 1) |-> IF idx % m = idx \div m THEN 1 ELSE 0])

\* A and Bm are m x m matrices inverse to each other
IsInverse(m, A, Bm) ==
    /\ dgemm(m, m, m, A, m, Bm, m) = Identity(m)
    /\ dgemm(m, m, m, Bm, m, A, m) = Identity(m)

\* the step of pdCompute_Diag_Inv
DiagInvStep == (\A p \in Procs : pc[p] = "factored") /\ Llu' # Llu

\* C33: pdCompute_Diag_Inv sets the flag to 1 and leaves in Linv and Uinv of the diagonal
\* process of every supernode the inverses of the unit lower triangle and of the upper
\* triangle of the diagonal block; the buffers of the other processes, the panels and
\* every other part of Llu, X, B and the counters are as before
C33_DiagInvFrame ==
    [][DiagInvStep =>
          /\ Llu'.inv = 1
          /\ \A k \in Supers : \A p \in Procs :
                IF p = DiagProc(k)
                THEN /\ IsInverse(SuperSize(k), Llu'.Linv_bc_ptr[p][k], UnitLowerOf(k))
                     /\ IsInverse(SuperSize(k), Llu'.Uinv_bc_ptr[p][k], UpperOf(k))
                ELSE /\ Llu'.Linv_bc_ptr[p][k] = Llu.Linv_bc_ptr[p][k]
                     /\ Llu'.Uinv_bc_ptr[p][k] = Llu.Uinv_bc_ptr[p][k]
          /\ [Llu' EXCEPT !.inv = Llu.inv,
                          !.Linv_bc_ptr = Llu.Linv_bc_ptr,
                          !.Uinv_bc_ptr = Llu.Uinv_bc_ptr] = Llu
          /\ UNCHANGED <<argVars, B, x, lsum, fwdVars, bwdVars, info, chan>>]_vars

\* pdCompute_Diag_Inv has run on a 2 x 2 grid for a factor with a diagonal block of three
\* columns whose inverse differs from it, and a process of the block's column that is not
\* its owner holds its buffer as allocated
C33_Witness ==
    /\ \A p \in Procs : pc[p] = "start"
    /\ Llu.inv = 1
    /\ Pr = 2 /\ Pc = 2
    /\ xsup = <<0, 3, 4>>
    /\ Llu.Linv_bc_ptr[DiagProc(0)][0] # UnitLowerOf(0)
    /\ Llu.Uinv_bc_ptr[DiagProc(0)][0] # UpperOf(0)
    /\ Llu.Linv_bc_ptr[DiagProc(1)][1] = Identity(1)
    /\ \E p \in Procs : p # DiagProc(0) /\ Llu.Linv_bc_ptr[p][0] = Zeros(9)

-----------------------------------------------------------------------------
(* C34: the order of the forward sweep follows the dependencies             *)

\* X_k was solved in the forward sweep and its owner has not started the backward sweep
SolvedForward(k) == nsolve[<<"L", k>>] = 1 /\ pc[DiagProc(k)] \in {"fwd", "fwd_done"}

\* the X messages of the forward sweep in flight
XkInFlight == {m \in InFlight : m.what = "X" /\ m.tag < nsupers}

-----------------------------------------------------------------------------
(* C35: the two sweeps do not mix                                           *)

\* the message belongs to the backward sweep
IsBackwardMsg(m) == m.tag \in {Xk, LSUM}

\* the step in which p sends a message of the backward sweep
SendsBackward(p) ==
    \E d \in Procs : \E i \in DOMAIN Appended(p, d) : IsBackwardMsg(Appended(p, d)[i])

\* C35: a message of the backward sweep is sent only by a process in its backward sweep and
\* only when every process has left its forward loop, so that a forward loop receives
\* messages of the forward sweep only; when a process is in its backward loop no message of
\* the forward sweep is in flight; a process that has left its forward loop has no tree
\* send outstanding, and it starts the backward sweep only when all processes have left
\* their forward loops
C35_SweepSeparation ==
    /\ [](\A m \in InFlight : IsBackwardMsg(m) => \A q \in Procs : LeftForward(q))
    /\ []((\E p \in Procs : pc[p] = "bwd") => \A m \in InFlight : IsBackwardMsg(m))
    /\ [](\A p \in Procs : pc[p] \in {"fwd_done", "bwd"} => \A r \in pending[p] : r[1] # "tree")
    /\ [](\A e \in recvLog : e[1] = "L" => e[3] # "none")
    /\ [][\A p \in Procs :
             /\ \A q \in Procs : FwdReceives(p, q) => ~IsBackwardMsg(Head(chan[<<q, p>>]))
             /\ \A q \in Procs : BwdReceives(p, q) => IsBackwardMsg(Head(chan[<<q, p>>]))
             /\ SendsBackward(p) => (RootStep(p) \/ pc[p] = "bwd")
             /\ RootStep(p) => \A q \in Procs : LeftForward(q)]_vars

\* a process has sent an X block of the backward sweep while another process, which
\* received messages in the forward sweep, has not started its backward sweep
C35_Witness ==
    \E p, q \in Procs :
        /\ pc[p] = "bwd" /\ pc[q] = "fwd_done"
        /\ chan[<<p, q>>] # <<>>
        /\ Delivered("L", q) > 0

-----------------------------------------------------------------------------
(* C36: the slots of recvbuf_BC_fwd                                         *)

\* the slots allocated for recvbuf_BC_fwd: nfrecvx + 1 of them, nfrecvx as at entry
SlotsAllocated(p) == 0 .. Llu.nfrecvx[p]

\* p will call MPI_Recv again in this forward sweep
WillReceive(p) == pc[p] = "fwd" /\ (nfrecvx[p] # 0 \/ nfrecvmod[p] # 0)

\* C36: in the forward sweep the slot the next receive writes is an allocated one and is
\* none of the slots that were handed to a tree forward; after the handling of an X
\* message that was forwarded the receive pointer is on the slot after the one handed
\* over; nfrecvx_buf only grows and never exceeds the initial nfrecvx
C36_RecvBufferSafety ==
    /\ [](\A p \in Procs :
             /\ WillReceive(p) => recvbuf0[p] \in SlotsAllocated(p) \ fwdSlots[p]
             /\ nfrecvx_buf[p] >= 0 /\ nfrecvx_buf[p] <= Llu.nfrecvx[p]
             /\ pc[p] = "fwd" => /\ nfrecvx_buf[p] + nfrecvx[p] <= Llu.nfrecvx[p]
                                 /\ fwdSlots[p] = 0 .. (nfrecvx_buf[p] - 1))
    /\ [][\A p, q \in Procs :
             /\ FwdReceives(p, q) =>
                   /\ nfrecvx_buf'[p] >= nfrecvx_buf[p]
                   /\ \A d \in Procs : \A i \in DOMAIN Appended(p, d) :
                          (Appended(p, d)[i] = Head(chan[<<q, p>>])) =>
                              /\ recvbuf0[p] \in fwdSlots'[p]
                              /\ recvbuf0'[p] = recvbuf0[p] + 1]_vars

\* a process that has forwarded an X message from slot 0 waits for another X message,
\* which it will receive into slot 1
C36_Witness ==
    \E p \in Procs :
        /\ WillReceive(p)
        /\ nfrecvx[p] > 0
        /\ fwdSlots[p] = {0}
        /\ recvbuf0[p] = 1
        /\ <<"tree", "recvbuf_BC_fwd">> \in pending[p]

-----------------------------------------------------------------------------
(* C37: the counters of the two receive loops                               *)

\* the sum of frecv over the local block rows of p that have a reduction tree
SumFrecv(p, fr) ==
    Sum([lk \in 0 .. (nlb - 1) |->
            IF lk \in LocalRows(p) /\ HasLRtree(p, GlobalRow(p, lk)) THEN fr[lk] ELSE 0],
        0, nlb - 1)

\* the counters of one loop at an iteration boundary: none is negative and the count of
\* partial sums to come is the sum of the per-row counts
CountersAgree(p, nx, nmod, recv, sum) ==
    /\ nx >= 0 /\ nmod >= 0
    /\ \A lk \in LocalRows(p) : recv[lk] >= 0
    /\ nmod = sum

\* the counters before and after the receive of m: exactly one of nx and nmod went down
\* by one, and with nmod the per-row count of the block row of m
OneCounterDown(isX, lk, nx, nx1, nmod, nmod1, recv, recv1) ==
    IF isX
    THEN nx1 = nx - 1 /\ nmod1 = nmod /\ recv1 = recv
    ELSE nx1 = nx /\ nmod1 = nmod - 1 /\ recv1 = [recv EXCEPT ![lk] = @ - 1]

\* C37: at every iteration boundary of the forward loop nfrecvx, nfrecvmod and every
\* frecv[lk] are not negative and nfrecvmod is the sum of frecv[lk] over the local block
\* rows with a reduction tree; every receive of the loop lowers exactly one of nfrecvx
\* and nfrecvmod by one (and with nfrecvmod the frecv of the block row of the message);
\* the backward loop does the same with nbrecvx, nbrecvmod and brecv
C37_CounterBookkeeping ==
    /\ [](\A p \in Procs :
             /\ pc[p] = "fwd" =>
                   CountersAgree(p, nfrecvx[p], nfrecvmod[p], frecv[p], SumFrecv(p, frecv[p]))
             /\ pc[p] = "bwd" =>
                   CountersAgree(p, nbrecvx[p], nbrecvmod[p], brecv[p], SumBrecv(p, brecv[p])))
    /\ [][\A p, q \in Procs :
             /\ FwdReceives(p, q) =>
                   LET m == Head(chan[<<q, p>>])
                   IN  /\ IsXkTag(m.tag) \/ IsLsumTag(m.tag)
                       /\ ~IsXkTag(m.tag) => HasLRtree(p, m.hdr)
                       /\ OneCounterDown(IsXkTag(m.tag), LBi(m.hdr),
                                         nfrecvx[p], nfrecvx'[p], nfrecvmod[p], nfrecvmod'[p],
                                         frecv[p], frecv'[p])
             /\ BwdReceives(p, q) =>
                   LET m == Head(chan[<<q, p>>])
                   IN  /\ m.tag = Xk \/ m.tag = LSUM
                       /\ m.tag = LSUM => LBi(m.hdr) \in DiagRows(p)
                       /\ OneCounterDown(m.tag = Xk, LBi(m.hdr),
                                         nbrecvx[p], nbrecvx'[p], nbrecvmod[p], nbrecvmod'[p],
                                         brecv[p], brecv'[p])]_vars

\* in the forward loop one process has received a partial sum and waits for another, and
\* one process has received an X block and waits for another
C37_Witness ==
    /\ \E p \in Procs :
          /\ pc[p] = "fwd"
          /\ nfrecvmod[p] > 0
          /\ nfrecvmod[p] < SumFrecv(p, InitFrecv(p))
          /\ \E lk \in LocalRows(p) : frecv[p][lk] > 0
    /\ \E q \in Procs :
          /\ pc[q] = "fwd"
          /\ nfrecvx[q] > 0
          /\ nfrecvx[q] < Llu.nfrecvx[q]

-----------------------------------------------------------------------------
(* C38: every legal argument set, the empty system and no right-hand side   *)
(* included                                                                 *)

\* the supernode partitions of the empty system (n = 0) and of a system of three
\* supernodes
ZeroXsups == {<<0>>, <<0, 1, 2, 3>>}
\* no right-hand side, and two
ZeroNrhs == {0, 2}

ZeroInit ==
    /\ InitWith(ZeroXsups, {"pattern"}, {<<IdPerm, IdPerm>>}, {NoPivot}, ZeroNrhs)
    /\ <<Pr, Pc>> \in FlagGrids

ZeroNext ==
    \/ SkipDiagInv
    \/ pdgstrs_Enter
    \/ ReDistribute_B_to_X
    \/ \E p \in Procs : ForwardSetup(p)
    \/ \E p \in Procs : FwdRecv(p)
    \/ \E p \in Procs : FwdExit(p)
    \/ \E p \in Procs : BackwardSetup(p)
    \/ \E p \in Procs : BwdRecv(p)
    \/ \E p \in Procs : BwdExit(p)
    \/ ReDistribute_X_to_B
    \/ Deallocate
    \/ WaitSends

\* one call of pdgstrs for a system of order n >= 0 with nrhs >= 0 right-hand sides
ZeroSpec == ZeroInit /\ [][ZeroNext]_vars

\* the indices pdgstrs has used to read supno once it is past the test of its arguments:
\* n - 1 for nsupers, and in the scatter the row irow of every row of B
SupnoIndices == {n_in - 1} \cup {PermRow(l) : l \in Rows}

\* the indices used to read xsup: k and k + 1 for every supernode k
XsupIndices == UNION {{k, k + 1} : k \in Supers}

\* the test of the arguments was passed
PastTest == \E p \in Procs : pc[p] \notin {"factored", "start", "error"}

\* C38: for every n >= 0 and nrhs >= 0 the indices used to read supno and xsup lie inside
\* the tables, the call is never left in an undefined state, and it ends with info = 0
C38_TablesInRange ==
    LegalCall =>
        /\ PastTest => /\ SupnoIndices \subseteq DOMAIN supno
                       /\ XsupIndices \subseteq 0 .. nsupers
        /\ \A p \in Procs : pc[p] # "undefined"
        /\ AllDone => info = 0

\* the same for systems that are not empty
C38_TablesInRangeNonEmpty ==
    (LegalCall /\ n_in > 0) =>
        /\ PastTest => /\ SupnoIndices \subseteq DOMAIN supno
                       /\ XsupIndices \subseteq 0 .. nsupers
        /\ \A p \in Procs : pc[p] # "undefined"
        /\ AllDone => info = 0

\* a call without right-hand sides for a system that is not empty has returned
C38_NoRhsDone == AllDone /\ nrhs = 0 /\ n_in > 0 /\ info = 0 /\ \A p \in Procs : pc[p] = "exit"

\* a call for the empty system has returned although it read supno[-1]
C38_EmptyDone == AllDone /\ n_in = 0 /\ \A p \in Procs : pc[p] = "exit"

-----------------------------------------------------------------------------
(* C39: the capacity of send_req                                            *)

SUPERLU_MAX(a, b) == IF a > b THEN a ELSE b

\* Llu->nfsendx: the number of X_k messages p sends in the forward sweep, one for every
\* other process row that holds a block of a block column p owns the diagonal of
Dist_nfsendx(p) ==
    Sum([k \in Supers |->
            IF DiagProc(k) = p
            THEN Cardinality({pr \in 0 .. (Pr - 1) :
                                 /\ pr # PROW(k)
                                 /\ \E i \in Supers : i > k /\ PROW(i) = pr /\ Lsel[<<i, k>>]})
            ELSE 0], 0, nsupers - 1)

\* Llu->nbsendx: the number of X_k messages p sends in the backward sweep
Dist_nbsendx(p) ==
    Sum([k \in Supers |-> IF DiagProc(k) = p THEN Cardinality(bsendx_plist(k)) ELSE 0],
        0, nsupers - 1)

\* the number of requests send_req is allocated for
send_req_size(p) == SUPERLU_MAX(Dist_nfsendx(p), Dist_nbsendx(p)) + nlb

\* the requests of p recorded in send_req that were not waited for
SendReqPending(p) == {r \in pending[p] : r[1] = "send_req"}

\* the number of messages the step of p appended to the channels
NumAppended(p) == Sum([d \in Procs |-> Len(Appended(p, d))], 0, Pr * Pc - 1)

\* C39: SolveMsgSent is 0 after the entry of pdgstrs, goes up by one with every
\* non-blocking send of the backward sweep and is changed by nothing else; it is never
\* more than max(nfsendx, nbsendx) + nlb, the size of send_req; the requests recorded in
\* send_req are waited for in one step only, the last before pdgstrs returns, which
\* waits for all of them and then frees send_req, and no other step frees send_req
C39_SendReqCapacity ==
    /\ [](\A p \in Procs :
             /\ SolveMsgSent[p] >= 0
             /\ SolveMsgSent[p] <= send_req_size(p)
             /\ SendReqPending(p) # {} => "send_req" \in alloc[p]
             /\ pc[p] \in {"entered", "fwd_setup", "fwd", "fwd_done"} => SolveMsgSent[p] = 0)
    /\ [][\A p \in Procs :
             /\ pc[p] \in {"fwd_done", "bwd"} /\ pc'[p] = "bwd" =>
                   SolveMsgSent'[p] = SolveMsgSent[p] + NumAppended(p)
             /\ SolveMsgSent'[p] # SolveMsgSent[p] =>
                   \/ pc[p] \in {"fwd_done", "bwd"} /\ pc'[p] = "bwd"
                   \/ pc[p] = "start" /\ pc'[p] = "entered" /\ SolveMsgSent'[p] = 0
             /\ ~(SendReqPending(p) \subseteq SendReqPending(p)') =>
                   /\ pc[p] = "freed" /\ pc'[p] = "exit"
                   /\ SendReqPending(p)' = {}
             /\ ("send_req" \in alloc[p] /\ "send_req" \notin alloc'[p]) =>
                   /\ pc[p] = "freed" /\ pc'[p] = "exit"
                   /\ SendReqPending(p)' = {}]_vars

\* a process that sends no X block has recorded the requests of two partial sums, more
\* than max(nfsendx, nbsendx), and is about to wait for them
C39_Witness ==
    \E p \in Procs :
        /\ pc[p] = "freed"
        /\ SolveMsgSent[p] = 2
        /\ SolveMsgSent[p] > SUPERLU_MAX(Dist_nfsendx(p), Dist_nbsendx(p))
        /\ SolveMsgSent[p] <= send_req_size(p)
        /\ <<"send_req", "lsum">> \in pending[p]
        /\ "send_req" \in alloc[p]

====
